---- MODULE Spec2Model ----
(***************************************************************************)
(* Relevance filtering of the research-daily-briefing pipeline:            *)
(*   src/src/processors/ai_filter.py         AIFilter                      *)
(*   src/src/processors/embedding_filter.py  EmbeddingFilter               *)
(*   src/src/processors/zhipu_embedding_filter.py  ZhipuEmbeddingFilter    *)
(*                                                                         *)
(* A Python str is modelled as a sequence of one-character strings; the    *)
(* CJK characters of the source are written by code point ("u76F8").       *)
(***************************************************************************)
EXTENDS Integers, Sequences, FiniteSets, TLC

(***************************************************************************)
(* Python str operations used by the filters.                              *)
(***************************************************************************)
UpperLetters == <<"A", "B", "C", "D", "E", "F", "G", "H", "I", "J", "K", "L", "M", "N", "O", "P", "Q", "R", "S", "T", "U", "V", "W", "X", "Y", "Z">>
LowerLetters == <<"a", "b", "c", "d", "e", "f", "g", "h", "i", "j", "k", "l", "m", "n", "o", "p", "q", "r", "s", "t", "u", "v", "w", "x", "y", "z">>

\* a sequence given as a function, as a tuple
Tuple(f) == SubSeq(f, 1, Len(f))

\* a function as an explicit table of its values
Table(f) == f @@ << >>

\* the lower-case letter of every upper-case letter
LowerOf ==
    Table([c \in {UpperLetters[k] : k \in 1..Len(UpperLetters)} |->
              LowerLetters[CHOOSE k \in 1..Len(UpperLetters) : UpperLetters[k] = c]])

\* str.lower() on one character
LowerChar(c) == IF c \in DOMAIN LowerOf THEN LowerOf[c] ELSE c

\* str.lower()
Lower(s) == Tuple([k \in 1..Len(s) |-> LowerChar(s[k])])

\* the characters str.strip() and str.split() treat as whitespace
IsSpace(c) == c \in {" ", "\n", "\t"}

Min(S) == CHOOSE m \in S : \A n \in S : m <= n
Max(S) == CHOOSE m \in S : \A n \in S : m >= n

\* pat occurs in s at position k
MatchAt(s, pat, k) ==
    /\ k >= 1
    /\ k + Len(pat) - 1 <= Len(s)
    /\ \A j \in 1..Len(pat) : s[k + j - 1] = pat[j]

\* the Python test `pat in s`
Contains(s, pat) == \E k \in 1..(Len(s) + 1) : MatchAt(s, pat, k)

\* str.startswith
StartsWith(s, pat) == MatchAt(s, pat, 1)

\* str.find(pat) + 1: position of the first occurrence of a non-empty pat
\* in s, 0 when there is none
Find(s, pat) ==
    LET hits == {k \in 1..Len(s) : MatchAt(s, pat, k)}
    IN  IF hits = {} THEN 0 ELSE Min(hits)

\* str.split(sep) for a non-empty separator: the pieces between the
\* non-overlapping occurrences of sep, scanned left to right
RECURSIVE Split(_, _)
Split(s, sep) ==
    LET k == Find(s, sep)
    IN  IF k = 0 THEN <<s>>
        ELSE <<SubSeq(s, 1, k - 1)>> \o Split(SubSeq(s, k + Len(sep), Len(s)), sep)

\* str.strip(): from the first to the last non-whitespace character
Strip(s) ==
    LET keep == {k \in 1..Len(s) : ~IsSpace(s[k])}
    IN  IF keep = {} THEN <<>> ELSE SubSeq(s, Min(keep), Max(keep))

\* str.split() without argument: the maximal runs of non-whitespace
RECURSIVE SplitWords(_)
SplitWords(s) ==
    LET t == Strip(s)
        spaces == {k \in 1..Len(t) : IsSpace(t[k])}
    IN  IF t = <<>> THEN <<>>
        ELSE IF spaces = {} THEN <<t>>
        ELSE <<SubSeq(t, 1, Min(spaces) - 1)>>
             \o SplitWords(SubSeq(t, Min(spaces), Len(t)))

\* str.replace(c, '') for a one-character c
Remove(s, c) == SelectSeq(s, LAMBDA ch : ch # c)

\* str.replace(c, d) for one-character c and d
ReplaceChar(s, c, d) == Tuple([k \in 1..Len(s) |-> IF s[k] = c THEN d ELSE s[k]])

\* the Python test `x in list`
InList(x, list) == \E k \in 1..Len(list) : list[k] = x

\* "\n".join(lines)
RECURSIVE JoinLines(_)
JoinLines(lines) ==
    IF lines = <<>> THEN <<>>
    ELSE IF Len(lines) = 1 THEN lines[1]
    ELSE lines[1] \o <<"\n">> \o JoinLines(Tail(lines))

(***************************************************************************)
(* AIFilter._check_relevance: the parsing of a successful response.        *)
(* Each rule yields "YES" (return True), "NO" (return False), "none" (the  *)
(* rule returned nothing and control falls through) or "IndexError".       *)
(***************************************************************************)
BoldMarker == <<"*", "*", "d", "e", "c", "i", "s", "i", "o", "n", "*", "*">>
PlainMarker == <<"d", "e", "c", "i", "s", "i", "o", "n", ":">>

BoldLineVerdictYesOnly(line) ==
    IF InList(<<"y", "e", "s">>, SplitWords(Lower(ReplaceChar(Remove(line, "*"), ":", " "))))
    THEN "YES" ELSE "none"

\* one line of the **decision** scan
BoldLineVerdict(line) ==
    LET line_clean == Lower(ReplaceChar(Remove(line, "*"), ":", " "))
        words == SplitWords(line_clean)
    IN  IF InList(<<"y", "e", "s">>, words) THEN "YES"
        ELSE IF InList(<<"n", "o">>, words) THEN "NO"
        ELSE "none"

\* the for loop over content.split('\n') of the **decision** rule
RECURSIVE BoldScan(_)
BoldScan(lines) ==
    IF lines = <<>> THEN "none"
    ELSE LET v == IF Contains(Lower(Head(lines)), BoldMarker)
                  THEN BoldLineVerdict(Head(lines)) ELSE "none"
         IN  IF v # "none" THEN v ELSE BoldScan(Tail(lines))

BoldFieldRule(content) ==
    IF Contains(Lower(content), BoldMarker)
    THEN BoldScan(Split(content, <<"\n">>))
    ELSE "none"

\* one line of the decision: scan; the split is on the line as written
PlainLineVerdict(line) ==
    LET parts == Split(line, PlainMarker)
    IN  IF Len(parts) < 2 THEN "IndexError"
        ELSE LET decision_part == Lower(Strip(parts[2]))
             IN  IF StartsWith(decision_part, <<"y", "e", "s">>)
                    \/ StartsWith(decision_part, <<"u0060", "u0060", "y", "e", "s">>) THEN "YES"
                 ELSE IF StartsWith(decision_part, <<"n", "o">>)
                         \/ StartsWith(decision_part, <<"u0060", "u0060", "n", "o">>) THEN "NO"
                 ELSE "none"

RECURSIVE PlainScan(_)
PlainScan(lines) ==
    IF lines = <<>> THEN "none"
    ELSE LET v == IF Contains(Lower(Head(lines)), PlainMarker)
                  THEN PlainLineVerdict(Head(lines)) ELSE "none"
         IN  IF v # "none" THEN v ELSE PlainScan(Tail(lines))

PlainFieldRule(content) ==
    IF Contains(Lower(content), PlainMarker)
    THEN PlainScan(Split(content, <<"\n">>))
    ELSE "none"

\* first_word of the response
FirstWord(content) ==
    LET content_stripped == Strip(content)
        first_line == IF content_stripped # <<>>
                      THEN Split(content_stripped, <<"\n">>)[1] ELSE <<>>
    IN  IF first_line # <<>> THEN Lower(SplitWords(first_line)[1]) ELSE <<>>

FirstWordYes == <<<<"y", "e", "s">>, <<"y", "e", "s">>, <<"y", "e", "s", ".">>, <<"y", "e", "s", ",">>>>
FirstWordNo == <<<<"n", "o">>, <<"n", "o", ".">>, <<"n", "o", ",">>>>
ChineseYes == <<<<"u76F8", "u5173">>, <<"u662F">>>>
ChineseNo == <<<<"u4E0D", "u76F8", "u5173">>, <<"u5426">>, <<"u4E0D", "u662F">>>>

FirstWordRule(content) ==
    IF InList(FirstWord(content), FirstWordYes) THEN "YES"
    ELSE IF InList(FirstWord(content), FirstWordNo) THEN "NO"
    ELSE "none"

ChineseRuleMissing(content) == "none"

ChineseRule(content) ==
    IF InList(FirstWord(content), ChineseYes) THEN "YES"
    ELSE IF InList(FirstWord(content), ChineseNo) THEN "NO"
    ELSE "none"

\* the three pattern lists, in source order
analysis_patterns ==
    << [pattern |-> <<"s", "c", "i", "e", "n", "t", "i", "f", "i", "c", " ", "a", "p", "p", "l", "i", "c", "a", "t", "i", "o", "n", ":", " ", "n", "o">>, value |-> "NO"],
       [pattern |-> <<"s", "c", "i", "e", "n", "t", "i", "f", "i", "c", " ", "a", "p", "p", "l", "i", "c", "a", "t", "i", "o", "n", ":", " ", "y", "e", "s">>, value |-> "YES"],
       [pattern |-> <<"a", "g", "e", "n", "t", " ", "p", "r", "e", "s", "e", "n", "c", "e", ":", " ", "n", "o">>, value |-> "NO"],
       [pattern |-> <<"n", "o", "t", " ", "r", "e", "l", "e", "v", "a", "n", "t">>, value |-> "NO"],
       [pattern |-> <<"r", "e", "l", "e", "v", "a", "n", "t", " ", "f", "o", "r", " ", "s", "c", "i", "e", "n", "t", "i", "f", "i", "c">>, value |-> "YES"] >>

yes_patterns ==
    << <<"d", "e", "c", "i", "s", "i", "o", "n", ":", " ", "y", "e", "s">>, <<"d", "e", "c", "i", "s", "i", "o", "n", ":", "u0060", "u0060", "y", "e", "s">>, <<"\"", "d", "e", "c", "i", "s", "i", "o", "n", "\"", ":", " ", "y", "e", "s">>,
       <<"*", "*", "d", "e", "c", "i", "s", "i", "o", "n", "*", "*", ":", " ", "y", "e", "s">>, <<":", " ", "y", "e", "s", " ", "(", "a", "g", "e", "n", "t">>, <<":", " ", "y", "e", "s", " ", "(", "s", "c", "i", "e", "n", "t", "i", "f", "i", "c">> >>

no_patterns ==
    << <<"d", "e", "c", "i", "s", "i", "o", "n", ":", " ", "n", "o">>, <<"d", "e", "c", "i", "s", "i", "o", "n", ":", "u0060", "u0060", "n", "o">>, <<"\"", "d", "e", "c", "i", "s", "i", "o", "n", "\"", ":", " ", "n", "o">>,
       <<"*", "*", "d", "e", "c", "i", "s", "i", "o", "n", "*", "*", ":", " ", "n", "o">>, <<":", " ", "n", "o", " ", "(", "n", "o", "t">>, <<":", " ", "n", "o", " ", "(", "f", "o", "c", "u", "s", "e", "s">>,
       <<"s", "c", "i", "e", "n", "t", "i", "f", "i", "c", " ", "a", "p", "p", "l", "i", "c", "a", "t", "i", "o", "n", ":", " ", "n", "o">>, <<"n", "o", "t", " ", "a", " ", "s", "c", "i", "e", "n", "t", "i", "f", "i", "c">>, <<"n", "o", " ", "(", "f", "o", "c", "u", "s", "e", "s", " ", "o", "n">> >>

\* the patterns as one ordered list of (pattern, value): the three loops of
\* the source run one after the other
PatternList ==
    analysis_patterns
    \o [k \in 1..Len(yes_patterns) |-> [pattern |-> yes_patterns[k], value |-> "YES"]]
    \o [k \in 1..Len(no_patterns) |-> [pattern |-> no_patterns[k], value |-> "NO"]]

RECURSIVE PatternScan(_, _)
PatternScan(content_lower, patterns) ==
    IF patterns = <<>> THEN "none"
    ELSE IF Contains(content_lower, Head(patterns).pattern) THEN Head(patterns).value
    ELSE PatternScan(content_lower, Tail(patterns))

PatternCascade(content) == PatternScan(Lower(content), PatternList)

YesIndicators == <<<<"y", "e", "s">>, <<"u76F8", "u5173">>, <<"r", "e", "l", "e", "v", "a", "n", "t">>, <<"p", "a", "s", "s">>>>
NoIndicators == <<<<"n", "o", "t", " ", "r", "e", "l", "e", "v", "a", "n", "t">>, <<"u4E0D", "u76F8", "u5173">>, <<"f", "a", "i", "l">>, <<"n", "o">>>>

AnyIn(content_lower, indicators) ==
    \E k \in 1..Len(indicators) : Contains(content_lower, indicators[k])

KeywordBalanceYesFirst(content) ==
    IF AnyIn(Lower(content), YesIndicators) THEN "YES"
    ELSE IF AnyIn(Lower(content), NoIndicators) THEN "NO"
    ELSE "none"

KeywordBalance(content) ==
    LET has_yes_indicators == AnyIn(Lower(content), YesIndicators)
        has_no_indicators == AnyIn(Lower(content), NoIndicators)
    IN  IF has_yes_indicators /\ ~has_no_indicators THEN "YES"
        ELSE IF has_no_indicators /\ ~has_yes_indicators THEN "NO"
        ELSE "none"

\* the rules in source order, each as a function of the stripped content
Rule(k, content) ==
    CASE k = 1 -> BoldFieldRule(content)
      [] k = 2 -> PlainFieldRule(content)
      [] k = 3 -> FirstWordRule(content)
      [] k = 4 -> ChineseRule(content)
      [] k = 5 -> PatternCascade(content)
      [] k = 6 -> KeywordBalance(content)

NumRules == 6

\* the rules run in order from rule k; the first that returns decides, and
\* after the last one comes the final "return False"
RECURSIVE Cascade(_, _)
Cascade(k, content) ==
    IF k > NumRules THEN [rule |-> 0, value |-> "NO"]
    ELSE LET v == Rule(k, content)
         IN  IF v # "none" THEN [rule |-> k, value |-> v]
             ELSE Cascade(k + 1, content)

\* what the "if result.returncode == 0:" block does with stdout: the rule
\* that ended the parse (0: none did) and "YES", "NO" or "IndexError"
ParseResponse(stdout) == Cascade(1, Strip(stdout))

(***************************************************************************)
(* Bounds of the model, and the inputs drawn within them.                  *)
(***************************************************************************)
\* lines in a judge response
MaxLines == 2
\* papers in one input list
MaxPapers == 3

\* the lines a judge response is made of
LinePool ==
    { <<"*", "*", "D", "e", "c", "i", "s", "i", "o", "n", "*", "*", ":", " ", "Y", "E", "S">>,
      <<"*", "*", "D", "e", "c", "i", "s", "i", "o", "n", "*", "*", ":", " ", "N", "o">>,
      <<"*", "*", "D", "e", "c", "i", "s", "i", "o", "n", "*", "*", ":", " ", "u", "n", "c", "l", "e", "a", "r">>,
      <<"D", "e", "c", "i", "s", "i", "o", "n", ":", " ", "N", "O", " ", "(", "f", "o", "c", "u", "s", "e", "s", " ", "o", "n", " ", "t", "h", "e", "o", "r", "y", ",", " ", "n", "o", "t", " ", "s", "c", "i", "e", "n", "t", "i", "f", "i", "c", " ", "a", "p", "p", "l", "i", "c", "a", "t", "i", "o", "n", ")">>,
      <<"d", "e", "c", "i", "s", "i", "o", "n", ":", " ", "y", "e", "s">>,
      <<"d", "e", "c", "i", "s", "i", "o", "n", ":", " ", "m", "a", "y", "b", "e">>,
      <<"D", "e", "c", "i", "s", "i", "o", "n", ":", " ", "m", "a", "y", "b", "e">>,
      <<"D", "e", "c", "i", "s", "i", "o", "n", ":", " ", "Y", "E", "S">>,
      <<"Y", "e", "s", ",", " ", "i", "t", " ", "i", "s", " ", "r", "e", "l", "e", "v", "a", "n", "t">>,
      <<"N", "o", ".">>,
      <<"u76F8", "u5173">>,
      <<"u4E0D", "u76F8", "u5173">>,
      <<"u662F">>,
      <<"u5426">>,
      <<"u4E0D", "u662F">>,
      <<"S", "c", "i", "e", "n", "t", "i", "f", "i", "c", " ", "a", "p", "p", "l", "i", "c", "a", "t", "i", "o", "n", ":", " ", "N", "o">>,
      <<"r", "e", "l", "e", "v", "a", "n", "t", " ", "f", "o", "r", " ", "s", "c", "i", "e", "n", "t", "i", "f", "i", "c", " ", "d", "i", "s", "c", "o", "v", "e", "r", "y">>,
      <<"n", "o", "t", " ", "a", " ", "s", "c", "i", "e", "n", "t", "i", "f", "i", "c", " ", "t", "o", "o", "l">>,
      <<"p", "a", "s", "s">>,
      <<"u", "n", "k", "n", "o", "w", "n">>,
      <<"y", "e", "s">>,
      <<>> }

\* every response of at most MaxLines lines of LinePool
Texts == { JoinLines(ls) : ls \in UNION { [1..n -> LinePool] : n \in 0..MaxLines } }

\* the responses of the end-to-end scenarios, an empty one and a working NO
ScenarioYes == <<"*", "*", "D", "e", "c", "i", "s", "i", "o", "n", "*", "*", ":", " ", "Y", "E", "S", "\n", "R", "e", "a", "s", "o", "n", "i", "n", "g", ":", " ", ".", ".", ".", "\n", "C", "o", "n", "f", "i", "d", "e", "n", "c", "e", ":", " ", "H", "I", "G", "H">>
ScenarioNo == <<"D", "e", "c", "i", "s", "i", "o", "n", ":", " ", "N", "O", " ", "(", "f", "o", "c", "u", "s", "e", "s", " ", "o", "n", " ", "t", "h", "e", "o", "r", "y", ",", " ", "n", "o", "t", " ", "s", "c", "i", "e", "n", "t", "i", "f", "i", "c", " ", "a", "p", "p", "l", "i", "c", "a", "t", "i", "o", "n", ")">>
JudgeTexts == { ScenarioYes, ScenarioNo, <<"d", "e", "c", "i", "s", "i", "o", "n", ":", " ", "n", "o">>, <<>> }

\* paper records as the fetchers build them: id, title and abstract are strings
PaperA == [id |-> "arxiv:1",
           title |-> <<"M", "u", "l", "t", "i", "-", "A", "g", "e", "n", "t", " ", "L", "L", "M", " ", "S", "y", "s", "t", "e", "m", " ", "f", "o", "r", " ", "A", "u", "t", "o", "m", "a", "t", "e", "d", " ", "L", "a", "b", " ", "E", "x", "p", "e", "r", "i", "m", "e", "n", "t", "s">>,
           abstract |-> <<".", ".", ".">>]
PaperB == [id |-> "arxiv:2",
           title |-> <<"G", "r", "a", "p", "h", " ", "T", "h", "e", "o", "r", "y">>,
           abstract |-> <<"W", "e", " ", "s", "t", "u", "d", "y", " ", "l", "l", "m", " ", "p", "l", "a", "n", "n", "e", "r", "s">>]
PaperC == [id |-> "biorxiv:3",
           title |-> <<"P", "r", "o", "t", "e", "i", "n", " ", "F", "o", "l", "d", "i", "n", "g">>,
           abstract |-> <<"c", "r", "y", "o", "-", "E", "M", " ", "m", "a", "p", "s">>]
PaperPool == {PaperA, PaperB, PaperC}

\* input lists; the same record may occur more than once
PaperLists == UNION { [1..n -> PaperPool] : n \in 0..MaxPapers }

\* config['keywords'] and config['max_papers']
KeywordLists == { <<>>, <<<<"a", "g", "e", "n", "t">>>>, <<<<"R", "L">>, <<"L", "L", "M">>>> }
MaxPapersChoices == {1, 2}

(***************************************************************************)
(* AIFilter: keyword prefilter and keyword fallback.                       *)
(***************************************************************************)
KeywordHitTitleOnly(paper, keywords) ==
    \E k \in 1..Len(keywords) : Contains(Lower(paper.title), Lower(keywords[k]))

\* the test of the inner loop of _filter_by_keywords for one paper
KeywordHit(paper, keywords) ==
    LET title == Lower(paper.title)
        abstract == Lower(paper.abstract)
    IN  \E k \in 1..Len(keywords) :
            \/ Contains(title, Lower(keywords[k]))
            \/ Contains(abstract, Lower(keywords[k]))

\* the loop of _filter_by_keywords from paper k on: the positions of the
\* papers appended to filtered
RECURSIVE SelectPositions(_, _, _)
SelectPositions(ps, keywords, k) ==
    IF k > Len(ps) THEN <<>>
    ELSE (IF KeywordHit(ps[k], keywords) THEN <<k>> ELSE <<>>)
         \o SelectPositions(ps, keywords, k + 1)

FilterByKeywordsKeepsAll(ps, keywords) == [k \in 1..Len(ps) |-> k]

\* _filter_by_keywords: the kept papers, as their positions in the input
FilterByKeywords(ps, keywords) ==
    IF keywords = <<>> THEN [k \in 1..Len(ps) |-> k]
    ELSE SelectPositions(ps, keywords, 1)

\* _has_keyword
HasKeyword(paper, keywords) ==
    LET title == Lower(paper.title)
        abstract == Lower(paper.abstract)
    IN  \E k \in 1..Len(keywords) :
            \/ Contains(title, Lower(keywords[k]))
            \/ Contains(abstract, Lower(keywords[k]))

TruncateOneMore(list, n) == SubSeq(list, 1, IF Len(list) > n + 1 THEN n + 1 ELSE Len(list))

\* if len(list) > n: list = list[:n]; a negative n cuts from the end
Truncate(list, n) ==
    IF Len(list) > n
    THEN SubSeq(list, 1, IF n >= 0 THEN n ELSE IF Len(list) + n > 0 THEN Len(list) + n ELSE 0)
    ELSE list

(***************************************************************************)
(* AIFilter._check_relevance.  The judge call ends in one of four ways:    *)
(*   "ok"       subprocess.run returns with returncode 0 and a stdout      *)
(*   "nonzero"  subprocess.run returns with another returncode             *)
(*   "timeout"  subprocess.run raises subprocess.TimeoutExpired            *)
(*   "oserror"  subprocess.run raises OSError (the binary cannot be run)   *)
(***************************************************************************)
FailureKinds == {"nonzero", "timeout", "oserror"}
Failure(kind) == [kind |-> kind, stdout |-> <<>>]
Success(text) == [kind |-> "ok", stdout |-> text]
Outcomes(texts) == { Success(t) : t \in texts } \cup { Failure(k) : k \in FailureKinds }

\* the parse of every response of the model, computed once
ParseTable == Table([t \in Texts \cup JudgeTexts |-> ParseResponse(t)])

\* the exception raised inside the try block, "none" when there is none
RaisedInTry(outcome) ==
    CASE outcome.kind = "timeout" -> "TimeoutExpired"
      [] outcome.kind = "oserror" -> "OSError"
      [] outcome.kind = "nonzero" -> "none"
      [] outcome.kind = "ok" ->
            IF ParseTable[outcome.stdout].value = "IndexError"
            THEN "IndexError" ELSE "none"

ExceptOSErrorOnly(exc) == exc = "OSError"

\* the except clauses of _check_relevance
ExceptTimeoutExpired(exc) == exc = "TimeoutExpired"
ExceptException(exc) == TRUE

\* _check_relevance(paper): the value returned (value), the exception raised
\* in the try block (raised) and the exception that leaves the method (exc)
CheckRelevance(paper, keywords, outcome) ==
    LET raised == RaisedInTry(outcome)
    IN  IF raised = "none"
        THEN IF outcome.kind = "ok"
             THEN [raised |-> "none", exc |-> "none",
                   value |-> ParseTable[outcome.stdout].value = "YES"]
             ELSE [raised |-> "none", exc |-> "none",
                   value |-> HasKeyword(paper, keywords)]
        ELSE IF ExceptTimeoutExpired(raised) \/ ExceptException(raised)
             THEN [raised |-> raised, exc |-> "none",
                   value |-> HasKeyword(paper, keywords)]
             ELSE [raised |-> raised, exc |-> raised, value |-> FALSE]

(***************************************************************************)
(* State.  Lists of papers hold references to the records of the input     *)
(* list; the model writes a reference as the record's position in papers.  *)
(***************************************************************************)
(***************************************************************************)
(* EmbeddingFilter and ZhipuEmbeddingFilter.  A vector is a tuple of        *)
(* integers.  A similarity dot/(norm_a*norm_b) is kept exactly, as the     *)
(* record [dot, nn] with nn = norm_a^2 * norm_b^2 > 0, and two of them are *)
(* compared through their signed squares.  The vectors and thresholds of   *)
(* the model keep every similarity away from the threshold, where the      *)
(* floating-point value and the exact one could differ.                    *)
(***************************************************************************)
\* np.dot(a, b) on two vectors of one length
RECURSIVE DotUpTo(_, _, _)
DotUpTo(a, b, n) == IF n = 0 THEN 0 ELSE DotUpTo(a, b, n - 1) + a[n] * b[n]
Dot(a, b) == DotUpTo(a, b, Len(a))

\* np.linalg.norm(a), squared
NormSq(a) == Dot(a, a)

\* np.dot raises ValueError when the shapes differ
CosineRaises(a, b) == Len(a) # Len(b)

\* cosine_similarity(a, b), for vectors of one length
cosine_similarity(a, b) ==
    IF NormSq(a) = 0 \/ NormSq(b) = 0
    THEN [dot |-> 0, nn |-> 1]
    ELSE [dot |-> Dot(a, b), nn |-> NormSq(a) * NormSq(b)]

\* x*|x|: it orders as x does
SignedSquare(x) == IF x >= 0 THEN x * x ELSE -(x * x)

AboveThreshold(similarity, threshold) ==
    SignedSquare(similarity.dot) * threshold.den * threshold.den
        > SignedSquare(threshold.num) * similarity.nn

\* similarity >= self.similarity_threshold, the threshold being num/den
AtLeastThreshold(similarity, threshold) ==
    SignedSquare(similarity.dot) * threshold.den * threshold.den
        >= SignedSquare(threshold.num) * similarity.nn

\* one similarity is greater than another
GreaterScore(s, t) == SignedSquare(s.dot) * t.nn > SignedSquare(t.dot) * s.nn

LeftUnsorted(list, score) == list

\* relevant_papers.sort(key=similarity_score, reverse=True): descending, and
\* papers of equal score keep their order
SortByScore(list, score) ==
    LET Before(a, b) ==
            \/ GreaterScore(score[list[a]], score[list[b]])
            \/ (~GreaterScore(score[list[b]], score[list[a]]) /\ a < b)
        Rank(a) == Cardinality({b \in 1..Len(list) : Before(b, a)}) + 1
    IN  Tuple([r \in 1..Len(list) |->
                  list[CHOOSE a \in 1..Len(list) : Rank(a) = r]])

\* config['similarity_threshold'] and the stored embedding of the query
Thresholds == { [num |-> 1, den |-> 2], [num |-> 0, den |-> 1] }
QueryVectors == { <<1, 0>>, <<1, 1>> }

\* embedding_config['provider']: ZhipuEmbeddingFilter or EmbeddingFilter
Providers == { "zhipu", "openai" }

\* what a provider call for one paper text ends with: a vector (of the
\* query's dimension or not), or an error raised by the request
ProviderVectors == { <<1, 0>>, <<1, 1>>, <<0, 0>>, <<1>> }
ProviderErrors == { "HTTPError", "Timeout" }
ProviderOutcomes ==
    { [kind |-> "vector", embedding |-> v] : v \in ProviderVectors } \cup
    { [kind |-> e, embedding |-> <<>>] : e \in ProviderErrors }

QueryEmbeddedAgain(stored) == <<1, 1>>

\* self.query_embedding as the loops read it: the attribute __init__ set,
\* no request is made for the query text
QueryVector(stored) == stored

\* _get_embedding(text): logs and re-raises what the request raised
GetEmbeddingRaises(outcome) ==
    IF outcome.kind = "vector" THEN "none" ELSE outcome.kind

\* the exception raised in the try block of the loop for one paper
RaisedForPaper(query, outcome) ==
    IF GetEmbeddingRaises(outcome) # "none" THEN GetEmbeddingRaises(outcome)
    ELSE IF CosineRaises(query, outcome.embedding) THEN "ValueError"
    ELSE "none"

\* filter_papers_batch: the papers whose texts go into the one request;
\* only the Zhipu variant cuts the list to max_papers first
BatchSent(prov, positions, maxp) ==
    IF prov = "zhipu" THEN Truncate(positions, maxp) ELSE positions

\* what the batch request for n texts ends with: one vector per text, or
\* an error raised by the request
BatchErrors == { "HTTPError" }
BatchOutcomes(n) ==
    { [kind |-> "vectors", embeddings |-> vs] : vs \in [1..n -> ProviderVectors] } \cup
    { [kind |-> e, embeddings |-> <<>>] : e \in BatchErrors }

\* the loop of filter_papers_batch over zip(papers, embeddings) from entry
\* j on: the scores written to the papers, the papers kept, and the
\* exception that ended the loop, "none" if it ran to its end
RECURSIVE ProcessBatch(_, _, _, _, _, _)
ProcessBatch(sent, vs, query, threshold, j, acc) ==
    IF j > Len(sent) \/ j > Len(vs) THEN acc
    ELSE IF CosineRaises(query, vs[j]) THEN [acc EXCEPT !.exc = "ValueError"]
    ELSE LET similarity == cosine_similarity(query, vs[j])
         IN  ProcessBatch(sent, vs, query, threshold, j + 1,
                 IF AtLeastThreshold(similarity, threshold)
                 THEN [score |-> (sent[j] :> similarity) @@ acc.score,
                       relevant |-> Append(acc.relevant, sent[j]),
                       exc |-> "none"]
                 ELSE acc)

ExceptBatchNothing(exc) == FALSE

\* the except clause of filter_papers_batch
ExceptBatch(exc) == TRUE

ExceptValueErrorOnly(exc) == exc = "ValueError"

ExceptPerPaperNothing(exc) == FALSE

\* the except clause of the loop of the embedding filter_papers
ExceptPerPaper(exc) == TRUE

VARIABLES
    filter_mode,       \* which filter the driver constructed: "claude",
                       \* "embedding"; "direct" for _check_relevance alone
    keywords,          \* AIFilter.keywords
    max_papers,        \* AIFilter.max_papers
    use_claude,        \* AIFilter.use_claude
    pc,                \* "idle", "judging", "embedding", "returned", "raised",
                       \* "direct", "checked"
    papers,            \* the argument of the running filter_papers call
    prefiltered,       \* what _filter_by_keywords returned in this call
    keyword_filtered,  \* the list the loop runs over: keyword_filtered after
                       \* the cap; papers[:max_papers] in the embedding filters
    i,                 \* loop position in keyword_filtered (from 1)
    relevant_papers,   \* filter_papers' relevant_papers
    result,            \* the list handed back to the caller, "none" before
    calls,             \* history: one record per _check_relevance call
    escaped,           \* the exception that left filter_papers, "none" if none
    similarity_threshold,  \* embedding filters: the threshold num/den
    query_embedding,       \* embedding filters: the stored query vector
    similarity_score,      \* paper['similarity_score'] of the papers that have one
    provider,              \* embedding filters: "zhipu" or "openai"
    query_embeds,          \* how many times the query text was embedded
    prior_score,           \* history: similarity_score as it was when the call began
    batch,                 \* history: the batch request of filter_papers_batch
    storage,               \* PaperStorage: the two tables and the JSON backup files
    run,                   \* the running fetch_and_process call
    summarizer,            \* the running PaperSummarizer.summarize_papers call
    pdf_downloader,        \* PDFDownloader: the files under storage_dir
    history                \* history: what the runs so far accepted and saved

vars == << filter_mode, keywords, max_papers, use_claude, pc, papers,
           prefiltered, keyword_filtered, i, relevant_papers, result, calls, escaped,
           similarity_threshold, query_embedding, similarity_score,
           provider, query_embeds, prior_score, batch,
           storage, run, summarizer, pdf_downloader, history >>

\* the state of the filters, and the state of the rest of the pipeline
filters == << filter_mode, keywords, max_papers, use_claude, pc, papers,
              prefiltered, keyword_filtered, i, relevant_papers, result, calls, escaped,
              similarity_threshold, query_embedding, similarity_score,
              provider, query_embeds, prior_score, batch >>
pipeline == << storage, run, summarizer, pdf_downloader, history >>

\* a filter on its own: no storage, run, summarizer or downloader exists
\* the value of a part of the pipeline that a specification leaves out
Unused == [pc |-> "none"]

NoPipeline ==
    /\ storage = Unused
    /\ run = Unused
    /\ summarizer = Unused
    /\ pdf_downloader = Unused
    /\ history = Unused

config == << filter_mode, keywords, max_papers, use_claude,
             similarity_threshold, query_embedding, provider, query_embeds >>

\* no batch request was made in this call
NoBatch == [attempted |-> FALSE, sent |-> 0, exc |-> "none", embeddings |-> <<>>]

\* the __init__ of the three filters take config values as they are: none
\* of them rejects one
ConfigRejected(maxp, threshold) == FALSE

\* AIFilter.__init__: the configuration is read and the judge binary looked up
InitAIFilter(maxChoices) ==
    /\ filter_mode = "claude"
    /\ keywords \in KeywordLists
    /\ max_papers \in maxChoices
    /\ ~ConfigRejected(max_papers, [num |-> 0, den |-> 1])
    /\ use_claude \in BOOLEAN
    /\ pc = "idle"
    /\ papers = <<>>
    /\ prefiltered = <<>>
    /\ keyword_filtered = <<>>
    /\ i = 1
    /\ relevant_papers = <<>>
    /\ result = "none"
    /\ calls = <<>>
    /\ escaped = "none"
    /\ similarity_threshold = [num |-> 0, den |-> 1]
    /\ query_embedding = <<>>
    /\ similarity_score = <<>>
    /\ provider = "none"
    /\ query_embeds = 0
    /\ prior_score = <<>>
    /\ batch = NoBatch
    /\ NoPipeline

InitClaude == InitAIFilter(MaxPapersChoices)

\* EmbeddingFilter.__init__ / ZhipuEmbeddingFilter.__init__, when the query
\* was embedded (a failure there ends the session before any filter call)
InitEmbeddingFilter(maxChoices, thresholds) ==
    /\ filter_mode = "embedding"
    /\ keywords = <<>>
    /\ max_papers \in maxChoices
    /\ use_claude = FALSE
    /\ pc = "idle"
    /\ papers = <<>>
    /\ prefiltered = <<>>
    /\ keyword_filtered = <<>>
    /\ i = 1
    /\ relevant_papers = <<>>
    /\ result = "none"
    /\ calls = <<>>
    /\ escaped = "none"
    /\ similarity_threshold \in thresholds
    /\ ~ConfigRejected(max_papers, similarity_threshold)
    /\ query_embedding \in QueryVectors
    /\ similarity_score = <<>>
    /\ provider \in Providers
    /\ query_embeds = 1
    /\ prior_score = <<>>
    /\ batch = NoBatch
    /\ NoPipeline

InitEmbedding == InitEmbeddingFilter(MaxPapersChoices, Thresholds)

\* ResearchBriefing.__init__ builds the filter the configured mode names
Init == InitClaude \/ InitEmbedding

\* the except clause around _check_relevance in filter_papers
ExceptInLoop(exc) == TRUE

\* filter_papers up to the loop: empty input, prefilter, cap, and the
\* return of the keyword result when no judge binary was found
FilterPapers(ps) ==
    /\ filter_mode = "claude"
    /\ pc = "idle"
    /\ papers' = ps
    /\ calls' = <<>>
    /\ escaped' = "none"
    /\ i' = 1
    /\ relevant_papers' = <<>>
    /\ IF ps = <<>>
       THEN /\ prefiltered' = <<>>
            /\ keyword_filtered' = <<>>
            /\ result' = <<>>
            /\ pc' = "returned"
       ELSE /\ prefiltered' = FilterByKeywords(ps, keywords)
            /\ keyword_filtered' = Truncate(prefiltered', max_papers)
            /\ IF use_claude
               THEN /\ result' = "none"
                    /\ pc' = "judging"
               ELSE /\ result' = keyword_filtered'
                    /\ pc' = "returned"
    /\ UNCHANGED << pipeline, config, similarity_score, prior_score, batch >>

\* one iteration of the loop: the judge is called for keyword_filtered[i]
\* and ends with outcome
JudgePaper(outcome) ==
    /\ pc = "judging"
    /\ i <= Len(keyword_filtered)
    /\ \E pos \in {keyword_filtered[i]} :
       \E r \in {CheckRelevance(papers[pos], keywords, outcome)} :
           /\ calls' = Append(calls, [pos |-> pos, outcome |-> outcome,
                                      raised |-> r.raised, exc |-> r.exc,
                                      value |-> r.value])
           /\ IF r.exc = "none"
              THEN /\ relevant_papers' =
                        IF r.value THEN Append(relevant_papers, pos) ELSE relevant_papers
                   /\ i' = i + 1
                   /\ UNCHANGED << pc, escaped >>
              ELSE IF ExceptInLoop(r.exc)
              THEN /\ relevant_papers' = Append(relevant_papers, pos)
                   /\ i' = i + 1
                   /\ UNCHANGED << pc, escaped >>
              ELSE /\ escaped' = r.exc
                   /\ pc' = "raised"
                   /\ UNCHANGED << relevant_papers, i >>
    /\ UNCHANGED << pipeline, config, papers, prefiltered, keyword_filtered, result,
                    similarity_score, prior_score, batch >>

\* the loop is over: return relevant_papers
ReturnRelevant ==
    /\ pc = "judging"
    /\ i > Len(keyword_filtered)
    /\ result' = relevant_papers
    /\ pc' = "returned"
    /\ UNCHANGED << pipeline, config, papers, prefiltered, keyword_filtered, i,
                    relevant_papers, calls, escaped, similarity_score,
                    prior_score, batch >>

\* the embedding filter_papers up to the loop: empty input and the cap;
\* prior is the similarity_score field the papers of ps arrive with
EmbeddingFilterPapers(ps, prior) ==
    /\ filter_mode = "embedding"
    /\ pc = "idle"
    /\ papers' = ps
    /\ calls' = <<>>
    /\ escaped' = "none"
    /\ i' = 1
    /\ relevant_papers' = <<>>
    /\ prefiltered' = <<>>
    /\ similarity_score' = prior
    /\ prior_score' = prior
    /\ batch' = NoBatch
    /\ IF ps = <<>>
       THEN /\ keyword_filtered' = <<>>
            /\ result' = <<>>
            /\ pc' = "returned"
       ELSE /\ keyword_filtered' = Truncate([k \in 1..Len(ps) |-> k], max_papers)
            /\ result' = "none"
            /\ pc' = "embedding"
    /\ UNCHANGED << pipeline, config >>

\* one iteration of the loop: the provider is asked for the embedding of
\* the paper's text and answers with outcome
EmbedPaper(outcome) ==
    /\ pc = "embedding"
    /\ i <= Len(keyword_filtered)
    /\ \E pos \in {keyword_filtered[i]} :
       \E exc \in {RaisedForPaper(QueryVector(query_embedding), outcome)} :
           /\ calls' = Append(calls, [pos |-> pos, outcome |-> outcome, exc |-> exc])
           /\ IF exc = "none"
              THEN \E similarity \in {cosine_similarity(QueryVector(query_embedding),
                                                          outcome.embedding)} :
                       /\ IF AtLeastThreshold(similarity, similarity_threshold)
                          THEN /\ similarity_score' = (pos :> similarity) @@ similarity_score
                               /\ relevant_papers' = Append(relevant_papers, pos)
                          ELSE UNCHANGED << similarity_score, relevant_papers >>
                       /\ i' = i + 1
                       /\ UNCHANGED << pc, escaped >>
              ELSE IF ExceptPerPaper(exc)
              THEN /\ i' = i + 1
                   /\ UNCHANGED << pc, escaped, similarity_score, relevant_papers >>
              ELSE /\ escaped' = exc
                   /\ pc' = "raised"
                   /\ UNCHANGED << i, similarity_score, relevant_papers >>
    /\ UNCHANGED << pipeline, config, papers, prefiltered, keyword_filtered, result,
                    prior_score, batch >>

\* the loop is over: sort relevant_papers by score and return it
ReturnSorted ==
    /\ pc = "embedding"
    /\ i > Len(keyword_filtered)
    /\ result' = SortByScore(relevant_papers, similarity_score)
    /\ pc' = "returned"
    /\ UNCHANGED << pipeline, config, papers, prefiltered, keyword_filtered, i,
                    relevant_papers, calls, escaped, similarity_score,
                    prior_score, batch >>

\* filter_papers_batch: empty input, the cap (Zhipu), the one request for
\* all texts and the loop over its answer; when any of it raises, the call
\* goes on as filter_papers(papers), whose loop EmbedPaper and ReturnSorted
\* run
FilterPapersBatch(ps, prior) ==
    /\ filter_mode = "embedding"
    /\ pc = "idle"
    /\ papers' = ps
    /\ calls' = <<>>
    /\ i' = 1
    /\ prefiltered' = <<>>
    /\ prior_score' = prior
    /\ IF ps = <<>>
       THEN /\ keyword_filtered' = <<>>
            /\ relevant_papers' = <<>>
            /\ similarity_score' = prior
            /\ batch' = NoBatch
            /\ result' = <<>>
            /\ pc' = "returned"
            /\ escaped' = "none"
       ELSE \E sent \in {BatchSent(provider, [k \in 1..Len(ps) |-> k], max_papers)} :
            \E outcome \in BatchOutcomes(Len(sent)) :
            \E done \in { IF outcome.kind = "vectors"
                          THEN ProcessBatch(sent, outcome.embeddings,
                                            QueryVector(query_embedding),
                                            similarity_threshold, 1,
                                            [score |-> prior, relevant |-> <<>>, exc |-> "none"])
                          ELSE [score |-> prior, relevant |-> <<>>, exc |-> outcome.kind] } :
                /\ similarity_score' = done.score
                /\ IF done.exc = "none"
                   THEN /\ keyword_filtered' = sent
                        /\ relevant_papers' = done.relevant
                        /\ batch' = [attempted |-> TRUE, sent |-> Len(sent), exc |-> "none",
                                     embeddings |-> outcome.embeddings]
                        /\ result' = SortByScore(done.relevant, done.score)
                        /\ pc' = "returned"
                        /\ escaped' = "none"
                   ELSE IF ExceptBatch(done.exc)
                   THEN /\ keyword_filtered' = Truncate(sent, max_papers)
                        /\ relevant_papers' = <<>>
                        /\ batch' = [attempted |-> TRUE, sent |-> Len(sent), exc |-> done.exc,
                                     embeddings |-> <<>>]
                        /\ result' = "none"
                        /\ pc' = "embedding"
                        /\ escaped' = "none"
                   ELSE /\ keyword_filtered' = sent
                        /\ relevant_papers' = done.relevant
                        /\ batch' = [attempted |-> TRUE, sent |-> Len(sent), exc |-> done.exc,
                                     embeddings |-> <<>>]
                        /\ result' = "none"
                        /\ pc' = "raised"
                        /\ escaped' = done.exc
    /\ UNCHANGED << pipeline, config >>

\* the driver is done with the list; the filter object waits for its next call
NextRun ==
    /\ pc = "returned"
    /\ pc' = "idle"
    /\ papers' = <<>>
    /\ prefiltered' = <<>>
    /\ keyword_filtered' = <<>>
    /\ i' = 1
    /\ relevant_papers' = <<>>
    /\ result' = "none"
    /\ calls' = <<>>
    /\ escaped' = "none"
    /\ similarity_score' = <<>>
    /\ prior_score' = <<>>
    /\ batch' = NoBatch
    /\ UNCHANGED << pipeline, config >>

Next ==
    \/ \E ps \in PaperLists : FilterPapers(ps)
    \/ \E o \in Outcomes(JudgeTexts) : JudgePaper(o)
    \/ ReturnRelevant
    \/ \E ps \in PaperLists : EmbeddingFilterPapers(ps, <<>>)
    \/ \E o \in ProviderOutcomes : EmbedPaper(o)
    \/ ReturnSorted
    \/ NextRun

Spec == Init /\ [][Next]_vars

(***************************************************************************)
(* An embedding filter with both of its entry points, filter_papers and    *)
(* filter_papers_batch.  The driver hands over papers of distinct ids,     *)
(* which may carry a similarity_score already.                             *)
(***************************************************************************)
DriverLists ==
    { ps \in PaperLists : \A a, b \in 1..Len(ps) : a # b => ps[a].id # ps[b].id }

\* the similarity_score fields the papers of ps arrive with: none, or one
\* on the first paper
PriorScores(ps) ==
    IF ps = <<>> THEN { <<>> } ELSE { <<>>, 1 :> [dot |-> 1, nn |-> 16] }

NextEmbedding ==
    \/ \E ps \in DriverLists : \E prior \in PriorScores(ps) : EmbeddingFilterPapers(ps, prior)
    \/ \E ps \in DriverLists : \E prior \in PriorScores(ps) : FilterPapersBatch(ps, prior)
    \/ \E o \in ProviderOutcomes : EmbedPaper(o)
    \/ ReturnSorted
    \/ NextRun

SpecEmbedding == InitEmbedding /\ [][NextEmbedding]_vars

(***************************************************************************)
(* The same filters built from any configuration file: max_papers and      *)
(* similarity_threshold are whatever number the file holds.                *)
(***************************************************************************)
ConfigMaxPapers == { -1, 0, 1 }
ConfigThresholds == { [num |-> -1, den |-> 2], [num |-> 1, den |-> 2] }

InitConfig ==
    \/ InitAIFilter(ConfigMaxPapers)
    \/ InitEmbeddingFilter(ConfigMaxPapers, ConfigThresholds)

SpecConfig == InitConfig /\ [][Next]_vars

(***************************************************************************)
(* _check_relevance on its own: one paper, any response of Texts.          *)
(***************************************************************************)
InitDirect ==
    /\ filter_mode = "direct"
    /\ keywords \in { <<>>, <<<<"a", "g", "e", "n", "t">>>> }
    /\ max_papers = 1
    /\ use_claude = TRUE
    /\ pc = "direct"
    /\ papers = <<PaperA>>
    /\ prefiltered = <<>>
    /\ keyword_filtered = <<>>
    /\ i = 1
    /\ relevant_papers = <<>>
    /\ result = "none"
    /\ calls = <<>>
    /\ escaped = "none"
    /\ similarity_threshold = [num |-> 0, den |-> 1]
    /\ query_embedding = <<>>
    /\ similarity_score = <<>>
    /\ provider = "none"
    /\ query_embeds = 0
    /\ prior_score = <<>>
    /\ batch = NoBatch
    /\ NoPipeline

CheckRelevanceCall(outcome) ==
    /\ pc = "direct"
    /\ \E r \in {CheckRelevance(papers[1], keywords, outcome)} :
           /\ calls' = <<[pos |-> 1, outcome |-> outcome, raised |-> r.raised,
                          exc |-> r.exc, value |-> r.value]>>
           /\ escaped' = r.exc
    /\ pc' = "checked"
    /\ UNCHANGED << pipeline, config, papers, prefiltered, keyword_filtered, i,
                    relevant_papers, result, similarity_score, prior_score, batch >>

NextDirect == \E o \in Outcomes(Texts) : CheckRelevanceCall(o)

SpecParser == InitDirect /\ [][NextDirect]_vars

(***************************************************************************)
(* cosine_similarity on its own: the shared helper and the copy the Zhipu  *)
(* filter carries, applied to two vectors.  The components are small       *)
(* integers, which floating point holds exactly.                           *)
(***************************************************************************)
\* the longest vector
MaxDim == 2

Components == { -1, 0, 1 }
CosineVectors == UNION { [1..n -> Components] : n \in 0..MaxDim }

CosineUnguarded(a, b) == [dot |-> Dot(a, b), nn |-> NormSq(a) * NormSq(b)]

\* ZhipuEmbeddingFilter.cosine_similarity, the static method
ZhipuCosineSimilarity(a, b) ==
    LET dot_product == Dot(a, b)
        norm_a_sq == NormSq(a)
        norm_b_sq == NormSq(b)
    IN  IF norm_a_sq = 0 \/ norm_b_sq = 0
        THEN [dot |-> 0, nn |-> 1]
        ELSE [dot |-> dot_product, nn |-> norm_a_sq * norm_b_sq]

\* the function a filter of the given provider calls
CosineOf(prov, a, b) ==
    IF prov = "zhipu" THEN ZhipuCosineSimilarity(a, b) ELSE cosine_similarity(a, b)

InitCosine ==
    /\ filter_mode = "cosine"
    /\ keywords = <<>>
    /\ max_papers = 1
    /\ use_claude = FALSE
    /\ pc = "direct"
    /\ papers = <<>>
    /\ prefiltered = <<>>
    /\ keyword_filtered = <<>>
    /\ i = 1
    /\ relevant_papers = <<>>
    /\ result = "none"
    /\ calls = <<>>
    /\ escaped = "none"
    /\ similarity_threshold = [num |-> 0, den |-> 1]
    /\ query_embedding \in CosineVectors
    /\ similarity_score = <<>>
    /\ provider \in Providers
    /\ query_embeds = 0
    /\ prior_score = <<>>
    /\ batch = NoBatch
    /\ NoPipeline

\* one call cosine_similarity(query_embedding, b): np.dot raises ValueError
\* for two lengths, otherwise the value is returned; a value with nn = 0
\* is a quotient by zero
CosineSimilarityCall(b) ==
    /\ pc = "direct"
    /\ IF CosineRaises(query_embedding, b)
       THEN /\ calls' = <<[a |-> query_embedding, b |-> b, exc |-> "ValueError",
                           value |-> "none"]>>
            /\ escaped' = "ValueError"
       ELSE /\ calls' = <<[a |-> query_embedding, b |-> b, exc |-> "none",
                           value |-> CosineOf(provider, query_embedding, b)]>>
            /\ escaped' = "none"
    /\ pc' = "checked"
    /\ UNCHANGED << pipeline, config, papers, prefiltered, keyword_filtered, i,
                    relevant_papers, result, similarity_score, prior_score, batch >>

NextCosine == \E b \in CosineVectors : CosineSimilarityCall(b)

SpecCosine == InitCosine /\ [][NextCosine]_vars

(***************************************************************************)
(* PaperSummarizer.summarize_papers.  One task per paper is submitted to a *)
(* pool of max_workers threads; a task makes its calls to the CLI and      *)
(* writes the summary into its own paper; the calling thread handles the   *)
(* futures as they complete.  A paper is written as its position in the    *)
(* input list.  The CLI texts of the model carry no code fence and no      *)
(* leading preamble, so of the clean-up only the length limit applies.     *)
(***************************************************************************)
\* papers in one summarize_papers call
MaxTasks == 2

Abstracts == { <<>>, <<"a", "b", "c">> }
SummarizerInputs == UNION { [1..n -> [abstract : Abstracts]] : n \in 0..MaxTasks }
MaxLengthChoices == { 2 }
MaxWorkersChoices == { 1, 2 }

\* what one CLI call of a task ends with
CliTexts == { <<"s">>, <<"l", "o", "n", "g">> }
CliOutcomes ==
    { [kind |-> "ok", stdout |-> t] : t \in CliTexts } \cup
    { [kind |-> k, stdout |-> <<>>] : k \in { "nonzero", "timeout" } }

\* an exception that leaves _summarize_and_update: building the prompt
\* raised before the try block of the CLI call
TaskErrors == { "KeyError" }

\* summary[:max_length] + '...' when the text is longer than max_length
LimitLength(summary, max_length) ==
    IF Len(summary) > max_length
    THEN Truncate(summary, max_length) \o <<".", ".", ".">>
    ELSE summary

\* paper.get('abstract', '')[:self.max_length]
AbstractFallback(paper, max_length) == Truncate(paper.abstract, max_length)

FutureToFirstPaper(pos) == 1

\* future_to_paper[future]: the paper the task of the future was given
FutureToPaper(pos) == pos

\* the except clause of the collecting loop
ExceptInCollect(exc) == TRUE

NoFilter ==
    /\ filter_mode = "none"
    /\ keywords = <<>>
    /\ max_papers = 1
    /\ use_claude = FALSE
    /\ pc = "idle"
    /\ papers = <<>>
    /\ prefiltered = <<>>
    /\ keyword_filtered = <<>>
    /\ i = 1
    /\ relevant_papers = <<>>
    /\ result = "none"
    /\ calls = <<>>
    /\ escaped = "none"
    /\ similarity_threshold = [num |-> 0, den |-> 1]
    /\ query_embedding = <<>>
    /\ similarity_score = <<>>
    /\ provider = "none"
    /\ query_embeds = 0
    /\ prior_score = <<>>
    /\ batch = NoBatch

NoFuture == [state |-> "pending", exc |-> "none", calls |-> <<>>]

InitSummarizer ==
    /\ NoFilter
    /\ storage = Unused
    /\ run = Unused
    /\ pdf_downloader = Unused
    /\ history = Unused
    /\ \E skill \in BOOLEAN, ml \in MaxLengthChoices, mw \in MaxWorkersChoices :
           summarizer = [pc |-> "idle", use_skill |-> skill, max_length |-> ml,
                         max_workers |-> mw, language |-> "zh-CN",
                         papers |-> <<>>, future |-> <<>>, fields |-> <<>>,
                         collected |-> {}, result |-> "none", escaped |-> "none"]

\* summarize_papers(ps) up to the end of the submit loop; an empty list is
\* returned at once
SummarizePapers(ps) ==
    /\ summarizer.pc = "idle"
    /\ IF ps = <<>>
       THEN summarizer' = [summarizer EXCEPT !.pc = "returned", !.papers = ps,
                                             !.result = <<>>]
       ELSE summarizer' = [summarizer EXCEPT !.pc = "collecting", !.papers = ps,
                                             !.future = [k \in 1..Len(ps) |-> NoFuture]]
    /\ UNCHANGED << filters, storage, run, pdf_downloader, history >>

Running == { p \in 1..Len(summarizer.future) :
                summarizer.future[p].state \in { "skill", "prompt" } }
Pending == { p \in 1..Len(summarizer.future) : summarizer.future[p].state = "pending" }

\* a free worker takes the oldest task of the queue: _summarize_paper
\* begins with the skill when there is one
StartTask ==
    /\ summarizer.pc = "collecting"
    /\ Pending # {}
    /\ Cardinality(Running) < summarizer.max_workers
    /\ summarizer' = [summarizer EXCEPT
           !.future[Min(Pending)].state = IF summarizer.use_skill THEN "skill" ELSE "prompt"]
    /\ UNCHANGED << filters, storage, run, pdf_downloader, history >>

\* the task writes paper['summary'] and paper['summary_language'] and ends
TaskWrites(pos, summary, outcome) ==
    summarizer' = [summarizer EXCEPT
        !.fields = (pos :> [summary |-> summary,
                            summary_language |-> summarizer.language]) @@ @,
        !.future[pos] = [state |-> "finished", exc |-> "none",
                         calls |-> Append(@.calls, outcome)]]

\* _summarize_with_skill: the CLI call of the task of paper pos ends with
\* outcome; anything but exit status 0 leads to _summarize_with_prompt
SkillCall(pos, outcome) ==
    /\ summarizer.pc = "collecting"
    /\ pos \in 1..Len(summarizer.future)
    /\ summarizer.future[pos].state = "skill"
    /\ IF outcome.kind = "ok"
       THEN TaskWrites(pos, LimitLength(Strip(outcome.stdout), summarizer.max_length),
                       outcome)
       ELSE summarizer' = [summarizer EXCEPT
                !.future[pos] = [state |-> "prompt", exc |-> "none",
                                 calls |-> Append(@.calls, outcome)]]
    /\ UNCHANGED << filters, storage, run, pdf_downloader, history >>

\* _summarize_with_prompt: the CLI call ends with outcome; anything but
\* exit status 0 gives the abstract cut to max_length
PromptCall(pos, outcome) ==
    /\ summarizer.pc = "collecting"
    /\ pos \in 1..Len(summarizer.future)
    /\ summarizer.future[pos].state = "prompt"
    /\ IF outcome.kind = "ok"
       THEN TaskWrites(pos, LimitLength(Strip(outcome.stdout), summarizer.max_length),
                       outcome)
       ELSE TaskWrites(pos, AbstractFallback(summarizer.papers[pos], summarizer.max_length),
                       outcome)
    /\ UNCHANGED << filters, storage, run, pdf_downloader, history >>

\* an exception leaves the task: the future holds it, the paper is not written
TaskRaises(pos, exc) ==
    /\ summarizer.pc = "collecting"
    /\ pos \in 1..Len(summarizer.future)
    /\ summarizer.future[pos].state \in { "skill", "prompt" }
    /\ summarizer' = [summarizer EXCEPT
           !.future[pos] = [state |-> "finished", exc |-> exc, calls |-> @.calls]]
    /\ UNCHANGED << filters, storage, run, pdf_downloader, history >>

\* one turn of the loop over as_completed: a finished future is handed
\* over, future.result() raises what the task raised, and the except
\* clause writes the abstract into the paper of that future
Collect(pos) ==
    /\ summarizer.pc = "collecting"
    /\ pos \in 1..Len(summarizer.future)
    /\ summarizer.future[pos].state = "finished"
    /\ pos \notin summarizer.collected
    /\ \E exc \in {summarizer.future[pos].exc} :
           IF exc = "none"
           THEN summarizer' = [summarizer EXCEPT !.collected = @ \cup {pos}]
           ELSE IF ExceptInCollect(exc)
           THEN \E paper \in {FutureToPaper(pos)} :
                    summarizer' = [summarizer EXCEPT
                        !.collected = @ \cup {pos},
                        !.fields = (paper :>
                             [summary |-> AbstractFallback(summarizer.papers[paper],
                                                           summarizer.max_length),
                              summary_language |-> "original"]) @@ @]
           ELSE summarizer' = [summarizer EXCEPT !.pc = "raised", !.escaped = exc]
    /\ UNCHANGED << filters, storage, run, pdf_downloader, history >>

\* every future was handed over: the pool shuts down, papers is returned
ReturnSummarized ==
    /\ summarizer.pc = "collecting"
    /\ summarizer.collected = 1..Len(summarizer.future)
    /\ summarizer' = [summarizer EXCEPT
           !.pc = "returned", !.result = [k \in 1..Len(summarizer.papers) |-> k]]
    /\ UNCHANGED << filters, storage, run, pdf_downloader, history >>

NextSummarizer ==
    \/ \E ps \in SummarizerInputs : SummarizePapers(ps)
    \/ StartTask
    \/ \E pos \in 1..MaxTasks, o \in CliOutcomes : SkillCall(pos, o)
    \/ \E pos \in 1..MaxTasks, o \in CliOutcomes : PromptCall(pos, o)
    \/ \E pos \in 1..MaxTasks, e \in TaskErrors : TaskRaises(pos, e)
    \/ \E pos \in 1..MaxTasks : Collect(pos)
    \/ ReturnSummarized

SpecSummarizer == InitSummarizer /\ [][NextSummarizer]_vars

(***************************************************************************)
(* ResearchBriefingSystem.fetch_and_process and PaperStorage.  The store   *)
(* is the table processed_papers (paper_id -> processed_date), the table   *)
(* briefings (date -> content) and the JSON backup files (date -> file).   *)
(* A date is a day number; its YYYY-MM-DD text orders as the number does.  *)
(* A paper is [id, n]: n tells apart two fetched papers of one id.  PDF    *)
(* download is off, as it is by default.                                   *)
(***************************************************************************)
\* the day cleanup runs on; the dates of the model are 0..Today
Today == 2
\* fetch_and_process runs in one behaviour
MaxRuns == 2

Dates == 0..Today
RetainDaysChoices == { 1 }
FetchedPapers == { [id |-> "a", n |-> 1], [id |-> "a", n |-> 2], [id |-> "b", n |-> 1] }

\* what fetcher.fetch ends with: a list of papers, or an exception
FetcherOutcomes ==
    { [raised |-> FALSE, papers |-> ps] :
          ps \in { <<>> } \cup { <<p>> : p \in FetchedPapers } } \cup
    { [raised |-> TRUE, papers |-> <<>>] }

\* the loop over self.fetchers: a fetcher that raises adds nothing
RECURSIVE ExtendAll(_)
ExtendAll(outcomes) ==
    IF outcomes = <<>> THEN <<>>
    ELSE (IF Head(outcomes).raised THEN <<>> ELSE Head(outcomes).papers)
             \o ExtendAll(Tail(outcomes))

\* PaperStorage.is_paper_processed
IsPaperProcessed(st, paper_id) == paper_id \in DOMAIN st.processed_papers

SeenCheckMissing(seen_ids, paper_id) == TRUE

\* "if paper_id not in seen_ids"
NotSeen(seen_ids, paper_id) == paper_id \notin seen_ids

\* the de-duplication loop of fetch_and_process over all_papers[k..]
RECURSIVE Deduplicate(_, _, _, _)
Deduplicate(st, all_papers, k, acc) ==
    IF k > Len(all_papers) THEN acc.unique_papers
    ELSE LET paper_id == all_papers[k].id
         IN  IF ~IsPaperProcessed(st, paper_id) /\ NotSeen(acc.seen_ids, paper_id)
             THEN Deduplicate(st, all_papers, k + 1,
                      [seen_ids |-> acc.seen_ids \cup {paper_id},
                       unique_papers |-> Append(acc.unique_papers, all_papers[k])])
             ELSE Deduplicate(st, all_papers, k + 1, acc)

\* the sub-lists of a list, order kept: what a filter can hand back
RECURSIVE SubLists(_)
SubLists(list) ==
    IF list = <<>> THEN { <<>> }
    ELSE LET rest == SubLists(Tail(list))
         IN  rest \cup { <<Head(list)>> \o r : r \in rest }

\* every list a filter can hand back in the model
FilterResults == UNION { [1..n -> FetchedPapers] : n \in 0..2 }

\* PaperStorage.mark_papers_processed: INSERT OR REPLACE for every paper
RECURSIVE MarkPapersProcessed(_, _, _)
MarkPapersProcessed(table, ps, process_date) ==
    IF ps = <<>> THEN table
    ELSE MarkPapersProcessed((Head(ps).id :> process_date) @@ table, Tail(ps), process_date)

\* INSERT OR REPLACE INTO briefings: the row of the date becomes the new one
BriefingReplaced(old, new) == new

\* PaperStorage.save_briefing: the JSON file is written first, then the
\* row; "file" is an exception while the file is written (it stays
\* truncated), "db" one raised by the INSERT, after the file is complete
SaveOutcomes == { "ok", "file", "db" }
SaveBriefing(st, briefing_date, ps, outcome) ==
    LET old == IF briefing_date \in DOMAIN st.briefings
               THEN st.briefings[briefing_date] ELSE <<>>
    IN  [st EXCEPT
            !.files = (briefing_date :> [complete |-> outcome # "file",
                                         papers |-> IF outcome = "file" THEN <<>> ELSE ps])
                          @@ @,
            !.briefings = IF outcome = "ok"
                          THEN (briefing_date :> BriefingReplaced(old, ps)) @@ @
                          ELSE @]

\* PaperStorage.load_briefing: the row if there is one, else the JSON file
\* if it exists and parses, else None
LoadBriefing(st, briefing_date) ==
    IF briefing_date \in DOMAIN st.briefings
    THEN [none |-> FALSE, papers |-> st.briefings[briefing_date]]
    ELSE IF briefing_date \in DOMAIN st.files /\ st.files[briefing_date].complete
    THEN [none |-> FALSE, papers |-> st.files[briefing_date].papers]
    ELSE [none |-> TRUE, papers |-> <<>>]

\* the restriction of a table to the keys that satisfy Keep
Restrict(table, keys) == [k \in keys |-> table[k]]

\* sqlite3 opens a transaction before the first DELETE, and VACUUM raises
\* OperationalError inside a transaction
VacuumRaises(in_transaction) == in_transaction

\* PaperStorage.cleanup_old_data: the two DELETEs, VACUUM, commit; when a
\* statement raises the connection is closed without commit
CleanupOldData(st) ==
    LET cutoff == Today - st.retain_days
        deleted == [st EXCEPT
            !.briefings = Restrict(@, { d \in DOMAIN @ : ~(d < cutoff) }),
            !.processed_papers = Restrict(@, { p \in DOMAIN @ : ~(@[p] < cutoff) })]
    IN  IF VacuumRaises(TRUE)
        THEN [raised |-> TRUE, storage |-> st]
        ELSE [raised |-> FALSE, storage |-> deleted]

InitPipeline ==
    /\ NoFilter
    /\ summarizer = Unused
    /\ pdf_downloader = Unused
    /\ \E rd \in RetainDaysChoices :
           storage = [pc |-> "ready", retain_days |-> rd, processed_papers |-> <<>>,
                      briefings |-> <<>>, files |-> <<>>]
    /\ run = [pc |-> "idle", target_date |-> 0, all_papers |-> <<>>,
              unique_papers |-> <<>>, relevant_papers |-> <<>>,
              summarized_papers |-> <<>>, returned |-> "none", escaped |-> "none"]
    /\ history = [pc |-> "ready", runs |-> 0, last |-> "none", cleaned |-> FALSE,
                  saved |-> [d \in Dates |-> {}]]

\* the run returns _create_empty_briefing: nothing is marked or saved
ReturnEmpty(target_date, all_papers, unique_papers) ==
    [pc |-> "idle", target_date |-> target_date, all_papers |-> all_papers,
     unique_papers |-> unique_papers, relevant_papers |-> <<>>,
     summarized_papers |-> <<>>, returned |-> "empty", escaped |-> "none"]

\* fetch_and_process(target_date), steps 1 and 2: fetch, then de-duplicate
FetchAndProcess(target_date, outcomes) ==
    /\ run.pc = "idle"
    /\ history.runs < MaxRuns
    /\ \E all_papers \in {ExtendAll(outcomes)} :
       \E unique_papers \in {Deduplicate(storage, all_papers, 1,
                                        [seen_ids |-> {}, unique_papers |-> <<>>])} :
           run' = IF all_papers = <<>> \/ unique_papers = <<>>
                  THEN ReturnEmpty(target_date, all_papers, unique_papers)
                  ELSE [pc |-> "filter", target_date |-> target_date,
                        all_papers |-> all_papers, unique_papers |-> unique_papers,
                        relevant_papers |-> <<>>, summarized_papers |-> <<>>,
                        returned |-> "none", escaped |-> "none"]
    /\ history' = [history EXCEPT !.runs = @ + 1, !.last = "run"]
    /\ UNCHANGED << filters, storage, summarizer, pdf_downloader >>

\* step 3: self.ai_filter.filter_papers(unique_papers) hands back kept
Filter(kept) ==
    /\ run.pc = "filter"
    /\ kept \in SubLists(run.unique_papers)
    /\ run' = IF kept = <<>>
              THEN ReturnEmpty(run.target_date, run.all_papers, run.unique_papers)
              ELSE [run EXCEPT !.pc = "summarize", !.relevant_papers = kept]
    /\ UNCHANGED << filters, storage, summarizer, pdf_downloader, history >>

\* step 5: summarize_papers hands back the papers it was given
Summarize ==
    /\ run.pc = "summarize"
    /\ run' = [run EXCEPT !.pc = "mark", !.summarized_papers = run.relevant_papers]
    /\ UNCHANGED << filters, storage, summarizer, pdf_downloader, history >>

\* step 6: mark_papers_processed(summarized_papers, target_date)
Mark ==
    /\ run.pc = "mark"
    /\ storage' = [storage EXCEPT !.processed_papers =
                       MarkPapersProcessed(@, run.summarized_papers, run.target_date)]
    /\ run' = [run EXCEPT !.pc = "save"]
    /\ UNCHANGED << filters, summarizer, pdf_downloader, history >>

\* steps 7 and 8: save_briefing(target_date, briefing_data), then return;
\* an exception of save_briefing leaves fetch_and_process
Save(outcome) ==
    /\ run.pc = "save"
    /\ storage' = SaveBriefing(storage, run.target_date, run.summarized_papers, outcome)
    /\ run' = [run EXCEPT !.pc = "idle",
                          !.returned = IF outcome = "ok" THEN "briefing" ELSE "none",
                          !.escaped = IF outcome = "ok" THEN "none" ELSE "Exception"]
    /\ history' = [history EXCEPT !.saved[run.target_date] =
                       IF outcome = "ok"
                       THEN @ \cup { run.summarized_papers[k] :
                                        k \in 1..Len(run.summarized_papers) }
                       ELSE @]
    /\ UNCHANGED << filters, summarizer, pdf_downloader >>

\* ResearchBriefingSystem.cleanup: storage.cleanup_old_data()
Cleanup ==
    /\ run.pc = "idle"
    /\ history.last # "cleanup"
    /\ storage' = CleanupOldData(storage).storage
    /\ history' = [history EXCEPT !.last = "cleanup", !.cleaned = TRUE]
    /\ UNCHANGED << filters, run, summarizer, pdf_downloader >>

NextPipeline ==
    \/ \E d \in Dates, o1, o2 \in FetcherOutcomes : FetchAndProcess(d, <<o1, o2>>)
    \/ \E kept \in FilterResults : Filter(kept)
    \/ Summarize
    \/ Mark
    \/ \E o \in SaveOutcomes : Save(o)
    \/ Cleanup

SpecPipeline == InitPipeline /\ [][NextPipeline]_vars
(***************************************************************************)
(* PDFDownloader.download_paper (utils/pdf_downloader.py).  The store is   *)
(* the directory tree under storage_dir: a path is there or not, and a     *)
(* path that is there holds a whole body or the part written before the    *)
(* download broke off.                                                     *)
(***************************************************************************)
DownloadIds == { <<"a", ":", "1">>, <<"a", "/", "1">>, <<"b">> }
DownloadPlatforms == { "arxiv", "biorxiv" }
PdfUrls == { <<>>, <<"u">> }
DownloadInputs == [id : DownloadIds, platform : DownloadPlatforms, pdf_url : PdfUrls]

\* what requests.get, raise_for_status, open and iter_content can do
DownloadOutcomes == { "ok", "timeout", "http_error", "open_error", "stream_timeout", "stream_error" }

\* the outcomes that break off after open(pdf_path, 'wb') created the file
BreaksWhileStreaming(outcome) == outcome \in { "stream_timeout", "stream_error" }

\* platform_dir / f'{paper_id}.pdf' with ':' and '/' of the id replaced
PdfPath(paper) ==
    [platform |-> paper.platform,
     name |-> ReplaceChar(ReplaceChar(paper.id, ":", "_"), "/", "_") \o <<".", "p", "d", "f">>]

\* pdf_path.exists()
PathExists(files, pdf_path) == pdf_path \in DOMAIN files

NoPath == [platform |-> "none", name |-> <<>>]

InitDownloader ==
    /\ NoFilter
    /\ storage = Unused
    /\ run = Unused
    /\ summarizer = Unused
    /\ pdf_downloader = [pc |-> "ready", files |-> <<>>,
                         paper |-> [id |-> <<>>, platform |-> "none", pdf_url |-> <<>>],
                         outcome |-> "none", returned |-> [none |-> TRUE, path |-> NoPath]]
    /\ history = [pc |-> "ready", broken |-> {}, retried |-> FALSE]

\* download_paper(paper): the whole call
DownloadPaper(paper, outcome) ==
    /\ pdf_downloader.pc = "ready"
    /\ \E pdf_path \in { PdfPath(paper) } :
       \E files \in { pdf_downloader.files } :
          IF paper.pdf_url = <<>>
          THEN /\ pdf_downloader' = [pdf_downloader EXCEPT !.paper = paper, !.outcome = "no_url",
                                        !.returned = [none |-> TRUE, path |-> NoPath]]
               /\ UNCHANGED history
          ELSE IF PathExists(files, pdf_path)
          THEN /\ pdf_downloader' = [pdf_downloader EXCEPT !.paper = paper, !.outcome = "exists",
                                        !.returned = [none |-> FALSE, path |-> pdf_path]]
               /\ history' = [history EXCEPT !.retried = pdf_path \in history.broken]
          ELSE IF outcome = "ok"
          THEN /\ pdf_downloader' = [pdf_downloader EXCEPT
                                        !.files = (pdf_path :> [complete |-> TRUE]) @@ files,
                                        !.paper = paper, !.outcome = outcome,
                                        !.returned = [none |-> FALSE, path |-> pdf_path]]
               /\ history' = [history EXCEPT !.retried = FALSE]
          ELSE IF BreaksWhileStreaming(outcome)
          THEN /\ pdf_downloader' = [pdf_downloader EXCEPT
                                        !.files = (pdf_path :> [complete |-> FALSE]) @@ files,
                                        !.paper = paper, !.outcome = outcome,
                                        !.returned = [none |-> TRUE, path |-> NoPath]]
               /\ history' = [history EXCEPT !.broken = @ \cup { pdf_path }, !.retried = FALSE]
          ELSE /\ pdf_downloader' = [pdf_downloader EXCEPT !.paper = paper, !.outcome = outcome,
                                        !.returned = [none |-> TRUE, path |-> NoPath]]
               /\ history' = [history EXCEPT !.retried = FALSE]
    /\ UNCHANGED << filters, storage, run, summarizer >>

NextDownloader == \E paper \in DownloadInputs : \E outcome \in DownloadOutcomes : DownloadPaper(paper, outcome)

SpecDownloader == InitDownloader /\ [][NextDownloader]_vars
(***************************************************************************)
(* Vocabulary of the properties, written from the specification and not    *)
(* from the operators above.                                               *)
(***************************************************************************)
\* kw occurs in text when letter case is ignored
OccursIgnoringCase(text, kw) ==
    \E a \in 1..(Len(text) + 1) :
        /\ a + Len(kw) - 1 <= Len(text)
        /\ \A j \in 1..Len(kw) : LowerChar(text[a + j - 1]) = LowerChar(kw[j])

\* the Keyword Prefilter: an empty keyword list passes every paper
PrefilterPasses(paper, kws) ==
    \/ kws = <<>>
    \/ \E k \in 1..Len(kws) :
          \/ OccursIgnoringCase(paper.title, kws[k])
          \/ OccursIgnoringCase(paper.abstract, kws[k])

\* a set of positions as the list of its elements in input order
InOrder(S) ==
    [k \in 1..Cardinality(S) |-> CHOOSE x \in S : Cardinality({y \in S : y < x}) = k - 1]

\* the first n entries of a list
FirstN(list, n) == [k \in 1..(IF n < Len(list) THEN n ELSE Len(list)) |-> list[k]]

\* the papers of ps that pass the prefilter, and the ones within the cap
PassingPositions(ps, kws) == InOrder({p \in 1..Len(ps) : PrefilterPasses(ps[p], kws)})
CappedPositions(ps, kws, n) == FirstN(PassingPositions(ps, kws), n)

\* a list of positions goes strictly upwards: a subsequence in input order
StrictlyIncreasing(list) == \A a, b \in 1..Len(list) : a < b => list[a] < list[b]

\* a is the start of b
IsPrefixOf(a, b) == Len(a) <= Len(b) /\ \A k \in 1..Len(a) : a[k] = b[k]

\* the positions the judge was called for, in call order
CalledPositions == [k \in 1..Len(calls) |-> calls[k].pos]

\* the response has a Decision: label (any letter case) and no ** marker
HasPlainField(text) ==
    /\ ~Contains(Lower(text), BoldMarker)
    /\ Contains(Lower(text), PlainMarker)

\* the value after the colon of the first Decision: label, lower-cased
PlainFieldValue(text) ==
    LET lines == Split(text, <<"\n">>)
        first == Min({k \in 1..Len(lines) : Contains(Lower(lines[k]), PlainMarker)})
        l == Lower(lines[first])
    IN  Strip(SubSeq(l, Find(l, PlainMarker) + Len(PlainMarker), Len(l)))

\* the words of a line once * is removed and : is a blank, lower-cased
CleanWords(line) == SplitWords(Lower(ReplaceChar(Remove(line, "*"), ":", " ")))

\* the lines of a response that carry the **Decision** marker and the word
\* yes or no
DecidingBoldLines(text) ==
    LET lines == Split(text, <<"\n">>)
    IN  { k \in 1..Len(lines) :
            /\ Contains(Lower(lines[k]), BoldMarker)
            /\ InList(<<"y", "e", "s">>, CleanWords(lines[k])) \/ InList(<<"n", "o">>, CleanWords(lines[k])) }

\* line k of the response says No next to the **Decision** marker
BoldLineSaysNo(text, k) ==
    LET lines == Split(text, <<"\n">>)
    IN  /\ Contains(Lower(lines[k]), BoldMarker)
        /\ InList(<<"n", "o">>, CleanWords(lines[k]))
        /\ ~InList(<<"y", "e", "s">>, CleanWords(lines[k]))

\* the bare word yes stands on a line other than line k
YesElsewhere(text, k) ==
    LET lines == Split(text, <<"\n">>)
    IN  \E j \in 1..Len(lines) : j # k /\ InList(<<"y", "e", "s">>, CleanWords(lines[j]))

\* the one call of a _check_relevance state
TheCall == calls[1]

\* the filter of the session is the AIFilter / one of the embedding filters
IsAIFilter == filter_mode = "claude"
IsEmbeddingFilter == filter_mode = "embedding"
Checked == pc = "checked" /\ TheCall.outcome.kind = "ok"

(***************************************************************************)
(* C1.  A successful response with an unmarked Decision: field, the label  *)
(* in any letter case, decides the paper by the value after the colon: NO  *)
(* excludes the paper and YES includes it, keyword match or not.           *)
(***************************************************************************)
C1_DecisionFieldDecides ==
    IsAIFilter => \A k \in 1..Len(calls) :
        LET c == calls[k]
        IN  (c.outcome.kind = "ok" /\ HasPlainField(c.outcome.stdout)) =>
                /\ StartsWith(PlainFieldValue(c.outcome.stdout), <<"n", "o">>)
                       => ~InList(c.pos, relevant_papers)
                /\ StartsWith(PlainFieldValue(c.outcome.stdout), <<"y", "e", "s">>)
                       => InList(c.pos, relevant_papers)

(***************************************************************************)
(* C2.  For every text of a successful call the parse raises nothing and   *)
(* _check_relevance returns a boolean that the text alone determines: True *)
(* when a rule classifies YES, False otherwise (also when no rule          *)
(* classifies), never the keyword fallback.                                *)
(***************************************************************************)
C2_ParseNeverRaises ==
    Checked =>
        /\ TheCall.raised = "none"
        /\ TheCall.value = (ParseTable[TheCall.outcome.stdout].value = "YES")

(***************************************************************************)
(* C3.  When every judge call fails, filter_papers returns exactly the     *)
(* keyword-prefiltered papers cut to the first max_papers, for every       *)
(* keyword list, the empty one included.                                   *)
(***************************************************************************)
C3_AllFailedGivesPrefiltered ==
    (/\ IsAIFilter
     /\ pc = "returned"
     /\ use_claude
     /\ \A k \in 1..Len(calls) : calls[k].outcome.kind \in FailureKinds)
    => result = CappedPositions(papers, keywords, max_papers)

(***************************************************************************)
(* C4.  A failed judge call changes only its own paper's decision, which   *)
(* becomes the Keyword Prefilter's verdict for that paper; the run goes    *)
(* on, every capped paper is still judged, and the other papers keep the   *)
(* decision of their own call.                                             *)
(***************************************************************************)
C4_FailureIsLocal ==
    IsAIFilter =>
        /\ pc # "raised"
        /\ (pc = "returned" /\ use_claude) => Len(calls) = Len(keyword_filtered)
        /\ \A k \in 1..Len(calls) :
              LET c == calls[k]
              IN  IF c.outcome.kind \in FailureKinds
                  THEN InList(c.pos, relevant_papers)
                           <=> PrefilterPasses(papers[c.pos], keywords)
                  ELSE InList(c.pos, relevant_papers) <=> c.value

(***************************************************************************)
(* C5.  filter_papers returns a subsequence of its input in input order    *)
(* (nothing added, duplicated or reordered), and a paper is in the output  *)
(* iff it passed the prefilter, is among the first max_papers prefiltered  *)
(* papers, and its final decision is true.                                 *)
(***************************************************************************)
FinalDecision(pos) ==
    IF use_claude
    THEN \E k \in 1..Len(calls) : calls[k].pos = pos /\ calls[k].value
    ELSE PrefilterPasses(papers[pos], keywords)

C5_OutputIsDecidedSubsequence ==
    (IsAIFilter /\ pc = "returned") =>
        LET capped == CappedPositions(papers, keywords, max_papers)
        IN  /\ StrictlyIncreasing(result)
            /\ \A p \in 1..Len(result) : result[p] \in 1..Len(papers)
            /\ \A pos \in 1..Len(papers) :
                  InList(pos, result) <=> (InList(pos, capped) /\ FinalDecision(pos))

C5_Witness ==
    /\ IsAIFilter
    /\ pc = "returned"
    /\ use_claude
    /\ Len(PassingPositions(papers, keywords)) > max_papers
    /\ Len(result) = 1
    /\ Len(calls) = 2
    /\ \E k \in 1..Len(calls) : calls[k].outcome.kind \in FailureKinds

(***************************************************************************)
(* C6.  The judge is called only for the first max_papers prefiltered      *)
(* papers, one at a time in input order and at most once for each; papers  *)
(* beyond the cap are never judged and never in the output; which papers   *)
(* are judged depends on the input and the configuration alone, so a       *)
(* repeated run judges the same papers.                                    *)
(***************************************************************************)
C6_JudgedAreTheCapped ==
    IsAIFilter =>
    LET capped == CappedPositions(papers, keywords, max_papers)
    IN  /\ IsPrefixOf(CalledPositions, capped)
        /\ Len(calls) <= max_papers
        /\ ~use_claude => calls = <<>>
        /\ \A p \in 1..Len(relevant_papers) : InList(relevant_papers[p], capped)
        /\ pc = "returned" =>
              /\ \A p \in 1..Len(result) : InList(result[p], capped)
              /\ (use_claude /\ papers # <<>>) => CalledPositions = capped

C6_Witness ==
    /\ IsAIFilter
    /\ pc = "returned"
    /\ use_claude
    /\ max_papers = 2
    /\ Len(PassingPositions(papers, keywords)) = 3
    /\ CalledPositions = <<1, 2>>
    /\ papers[1] = papers[2]

(***************************************************************************)
(* C7.  The keyword prefilter keeps a paper iff the keyword list is empty  *)
(* or some keyword, letter case ignored, is a substring of the title or of *)
(* the abstract; the kept papers stay in input order.                      *)
(***************************************************************************)
C7_PrefilterKeepsMatches ==
    (IsAIFilter /\ pc \in {"judging", "returned"} /\ papers # <<>>) =>
        /\ StrictlyIncreasing(prefiltered)
        /\ \A pos \in 1..Len(papers) :
              InList(pos, prefiltered) <=> PrefilterPasses(papers[pos], keywords)

C7_Witness ==
    /\ IsAIFilter
    /\ pc = "judging"
    /\ keywords # <<>>
    /\ Len(papers) = 3
    /\ Len(prefiltered) = 2
    /\ \E p \in 1..Len(prefiltered) :
          LET paper == papers[prefiltered[p]]
          IN  /\ \A k \in 1..Len(keywords) : ~OccursIgnoringCase(paper.title, keywords[k])
              /\ \E k \in 1..Len(keywords) : keywords[k] # Lower(keywords[k])

(***************************************************************************)
(* C8 as stated.  A response with a **Decision** line that says No and     *)
(* the bare word yes somewhere else parses to NO.                          *)
(***************************************************************************)
C8_AnyBoldNoWins ==
    Checked =>
        \A k \in 1..Len(Split(TheCall.outcome.stdout, <<"\n">>)) :
            (/\ BoldLineSaysNo(TheCall.outcome.stdout, k)
             /\ YesElsewhere(TheCall.outcome.stdout, k))
            => (TheCall.raised = "none" /\ TheCall.value = FALSE)

(***************************************************************************)
(* C8 amended.  When the first **Decision** line that carries the word yes *)
(* or no says No (and not yes), the parse result is NO whatever stands on  *)
(* the other lines: no looser rule overrides the bold-field rule.          *)
(***************************************************************************)
FirstBoldSaysNo(text) ==
    /\ DecidingBoldLines(text) # {}
    /\ BoldLineSaysNo(text, Min(DecidingBoldLines(text)))

C8_FirstBoldNoWins ==
    (Checked /\ FirstBoldSaysNo(TheCall.outcome.stdout))
    => (TheCall.raised = "none" /\ TheCall.value = FALSE)

C8_Witness ==
    /\ Checked
    /\ FirstBoldSaysNo(TheCall.outcome.stdout)
    /\ YesElsewhere(TheCall.outcome.stdout, Min(DecidingBoldLines(TheCall.outcome.stdout)))
    /\ FirstWord(TheCall.outcome.stdout) = <<"y", "e", "s">>
    /\ TheCall.value = FALSE

(***************************************************************************)
(* C9.  A successful response without a Decision field whose first word is *)
(* a localized affirmative token parses to YES, and one whose first word   *)
(* is a localized negative token parses to NO.                             *)
(***************************************************************************)
LocalizedYes == { <<"u76F8", "u5173">>, <<"u662F">> }
LocalizedNo == { <<"u4E0D", "u76F8", "u5173">>, <<"u5426">>, <<"u4E0D", "u662F">> }

NoDecisionField(text) == ~Contains(Lower(text), <<"d", "e", "c", "i", "s", "i", "o", "n">>)

LeadingWord(text) == IF SplitWords(text) = <<>> THEN <<>> ELSE SplitWords(text)[1]

C9_LocalizedFirstWord ==
    (Checked /\ NoDecisionField(TheCall.outcome.stdout)) =>
        /\ LeadingWord(TheCall.outcome.stdout) \in LocalizedYes
               => (TheCall.raised = "none" /\ TheCall.value = TRUE)
        /\ LeadingWord(TheCall.outcome.stdout) \in LocalizedNo
               => (TheCall.raised = "none" /\ TheCall.value = FALSE)

C9_Witness ==
    /\ Checked
    /\ TheCall.outcome.stdout = <<"u662F", "\n", "u", "n", "k", "n", "o", "w", "n">>
    /\ TheCall.value = TRUE

(***************************************************************************)
(* C10.  For papers with id, title and abstract set, a filter_papers call  *)
(* of the AIFilter or of an embedding filter never lets an exception       *)
(* escape, whatever the per-paper judge or provider calls do, and what it  *)
(* hands back to the driver is a list (empty or not) of input papers.      *)
(***************************************************************************)
IsListOfPapers(list) ==
    /\ DOMAIN list = 1..Len(list)
    /\ \A k \in 1..Len(list) : list[k] \in 1..Len(papers)

C10_FilterReturnsList ==
    (IsAIFilter \/ IsEmbeddingFilter) =>
        /\ pc # "raised"
        /\ escaped = "none"
        /\ pc = "returned" => IsListOfPapers(result)
        /\ (pc = "judging" /\ i > Len(keyword_filtered)) => ENABLED ReturnRelevant
        /\ (pc = "embedding" /\ i > Len(keyword_filtered)) => ENABLED ReturnSorted

C10_Witness ==
    /\ IsEmbeddingFilter
    /\ pc = "returned"
    /\ Len(calls) = 2
    /\ calls[1].exc \in ProviderErrors
    /\ calls[2].exc = "none"
    /\ Len(result) = 1

(***************************************************************************)
(* C11.  When no judge binary was found at construction, that stays so for *)
(* the whole session: no step of any filter_papers call invokes the judge, *)
(* and every call returns exactly the keyword-prefiltered papers cut to    *)
(* the first max_papers.                                                   *)
(***************************************************************************)
C11_NoJudgeSessionIsKeywordOnly ==
    [][ (IsAIFilter /\ ~use_claude) =>
            /\ use_claude' = use_claude
            /\ calls' = <<>>
            /\ pc' # "judging"
            /\ pc' = "returned" =>
                   result' = Tuple(CappedPositions(papers', keywords', max_papers')) ]_vars

C11_Witness ==
    /\ IsAIFilter
    /\ ~use_claude
    /\ pc = "returned"
    /\ keywords # <<>>
    /\ Len(papers) = 3
    /\ Len(PassingPositions(papers, keywords)) = 3
    /\ max_papers = 2
    /\ result = <<1, 2>>
    /\ calls = <<>>

(***************************************************************************)
(* C12.  A filter is never built from a malformed configuration (negative  *)
(* similarity threshold, zero or negative max_papers): construction        *)
(* rejects it, so no filter_papers run executes with such a value.         *)
(***************************************************************************)
C12_MalformedConfigNeverRuns ==
    pc \in {"judging", "embedding", "returned"} =>
        /\ max_papers >= 1
        /\ IsEmbeddingFilter => similarity_threshold.num >= 0

(***************************************************************************)
(* Vocabulary of the embedding properties: the similarity of two vectors   *)
(* of one length as the fraction ip / sqrt(nn), taken as 0 when one of the *)
(* vectors has norm zero.                                                  *)
(***************************************************************************)
RECURSIVE SumOfProducts(_, _, _)
SumOfProducts(a, b, n) == IF n = 0 THEN 0 ELSE a[n] * b[n] + SumOfProducts(a, b, n - 1)

InnerProduct(a, b) == SumOfProducts(a, b, Len(a))

Similarity(a, b) ==
    IF InnerProduct(a, a) = 0 \/ InnerProduct(b, b) = 0
    THEN [ip |-> 0, nn |-> 1]
    ELSE [ip |-> InnerProduct(a, b), nn |-> InnerProduct(a, a) * InnerProduct(b, b)]

\* ip1/sqrt(nn1) >= ip2/sqrt(nn2), for nn1, nn2 > 0
FractionAtLeast(ip1, nn1, ip2, nn2) ==
    IF ip1 >= 0 /\ ip2 <= 0 THEN TRUE
    ELSE IF ip1 < 0 /\ ip2 >= 0 THEN FALSE
    ELSE IF ip1 >= 0 THEN ip1 * ip1 * nn2 >= ip2 * ip2 * nn1
    ELSE ip1 * ip1 * nn2 <= ip2 * ip2 * nn1

\* the similarity sim reaches the threshold th = num/den
ReachesThreshold(sim, th) == FractionAtLeast(sim.ip, sim.nn, th.num, th.den * th.den)

\* the stored score (a similarity_score field) is the similarity sim
ScoreIs(score, sim) ==
    /\ FractionAtLeast(score.dot, score.nn, sim.ip, sim.nn)
    /\ FractionAtLeast(sim.ip, sim.nn, score.dot, score.nn)

\* the call got a vector that can be compared with the query
Comparable(call) ==
    call.outcome.kind = "vector" /\ Len(call.outcome.embedding) = Len(query_embedding)

\* a per-item run (no batch request) of an embedding filter has returned
PerItemReturned == IsEmbeddingFilter /\ pc = "returned" /\ ~batch.attempted

(***************************************************************************)
(* C13.  In the per-item embedding filter a paper within the cap whose     *)
(* embedding call gave a vector comparable with the query is in the output *)
(* iff its similarity to the query is >= the threshold (the boundary       *)
(* included), and the similarity_score of every output paper is the        *)
(* similarity computed for it in this run, hence >= the threshold.         *)
(***************************************************************************)
C13_IncludedIffAtLeastThreshold ==
    PerItemReturned =>
        /\ \A k \in 1..Len(calls) :
              Comparable(calls[k]) =>
                  LET sim == Similarity(query_embedding, calls[k].outcome.embedding)
                  IN  /\ InList(calls[k].pos, result) <=> ReachesThreshold(sim, similarity_threshold)
                      /\ InList(calls[k].pos, result) =>
                             /\ calls[k].pos \in DOMAIN similarity_score
                             /\ ScoreIs(similarity_score[calls[k].pos], sim)
        /\ \A p \in 1..Len(result) :
              /\ \E k \in 1..Len(calls) : calls[k].pos = result[p] /\ Comparable(calls[k])
              /\ FractionAtLeast(similarity_score[result[p]].dot, similarity_score[result[p]].nn,
                                 similarity_threshold.num,
                                 similarity_threshold.den * similarity_threshold.den)

C13_Witness ==
    /\ PerItemReturned
    /\ similarity_threshold = [num |-> 0, den |-> 1]
    /\ Len(calls) = 2
    /\ calls[1].outcome.kind = "vector" /\ calls[1].outcome.embedding = <<0, 0>>
    /\ calls[2].outcome.kind = "vector" /\ calls[2].outcome.embedding = <<1, 1>>
    /\ result = <<2, 1>>

(***************************************************************************)
(* C14.  The list an embedding filter returns, from filter_papers or from  *)
(* filter_papers_batch, is in descending order of similarity_score, and    *)
(* papers of equal score are in their input order.                         *)
(***************************************************************************)
ScoreOf(pos) == similarity_score[pos]

\* list is in descending order of score, equal scores in input order
DescendingStable(list) ==
    \A a, b \in 1..Len(list) :
        a < b =>
            /\ FractionAtLeast(ScoreOf(list[a]).dot, ScoreOf(list[a]).nn,
                               ScoreOf(list[b]).dot, ScoreOf(list[b]).nn)
            /\ FractionAtLeast(ScoreOf(list[b]).dot, ScoreOf(list[b]).nn,
                               ScoreOf(list[a]).dot, ScoreOf(list[a]).nn)
                   => list[a] < list[b]

C14_SortedByScoreStable ==
    (IsEmbeddingFilter /\ pc = "returned") => DescendingStable(result)

C14_Witness ==
    /\ IsEmbeddingFilter
    /\ pc = "returned"
    /\ batch.attempted
    /\ batch.exc = "none"
    /\ batch.embeddings = << <<1, 1>>, <<1, 0>>, <<1, 1>> >>
    /\ query_embedding = <<1, 0>>
    /\ result = <<2, 1, 3>>

(***************************************************************************)
(* C15.  For every input list, with the same stored query vector and the   *)
(* same provider vector for each text, filter_papers_batch returns what    *)
(* filter_papers returns: the papers among the first max_papers whose      *)
(* similarity is >= the threshold, with that similarity as score, in       *)
(* descending order of score.                                              *)
(***************************************************************************)
\* a filter_papers_batch call whose one request and its processing succeeded
BatchReturned ==
    IsEmbeddingFilter /\ pc = "returned" /\ batch.attempted /\ batch.exc = "none"

\* what filter_papers keeps when the provider gives vectors[pos] for paper pos
PerItemKeeps(pos, vectors) ==
    /\ pos <= max_papers
    /\ pos \in 1..Len(vectors)
    /\ ReachesThreshold(Similarity(query_embedding, vectors[pos]), similarity_threshold)

C15_BatchEqualsPerItem ==
    BatchReturned =>
        /\ \A pos \in 1..Len(papers) :
              /\ InList(pos, result) <=> PerItemKeeps(pos, batch.embeddings)
              /\ InList(pos, result) =>
                     ScoreIs(ScoreOf(pos), Similarity(query_embedding, batch.embeddings[pos]))
        /\ DescendingStable(result)

(***************************************************************************)
(* C16.  When the batch request or the processing of its answer fails,     *)
(* filter_papers_batch returns what filter_papers returns for the same     *)
(* input list: the first max_papers papers are embedded one by one, a      *)
(* paper is kept iff the similarity of its own per-item vector is >= the   *)
(* threshold, its score is that similarity, the list is sorted; nothing of *)
(* the failed batch attempt is in the output.                              *)
(***************************************************************************)
BatchFailed == IsEmbeddingFilter /\ batch.attempted /\ batch.exc # "none"

\* the positions 1..n in order
FirstPositions(n) == [k \in 1..n |-> k]

C16_FailedBatchGivesPerItemResult ==
    BatchFailed =>
        /\ pc # "raised"
        /\ pc = "returned" =>
              /\ CalledPositions =
                     FirstPositions(IF Len(papers) < max_papers THEN Len(papers) ELSE max_papers)
              /\ \A k \in 1..Len(calls) :
                    InList(calls[k].pos, result) <=>
                        /\ Comparable(calls[k])
                        /\ ReachesThreshold(
                               Similarity(query_embedding, calls[k].outcome.embedding),
                               similarity_threshold)
              /\ \A p \in 1..Len(result) :
                    \E k \in 1..Len(calls) :
                        /\ calls[k].pos = result[p]
                        /\ Comparable(calls[k])
                        /\ ScoreIs(ScoreOf(result[p]),
                                   Similarity(query_embedding, calls[k].outcome.embedding))
              /\ DescendingStable(result)

C16_Witness ==
    /\ BatchFailed
    /\ pc = "returned"
    /\ batch.exc = "ValueError"
    /\ prior_score = <<>>
    /\ Len(calls) = 2
    /\ calls[1].exc \in ProviderErrors
    /\ 1 \in DOMAIN similarity_score
    /\ result = <<2>>

(***************************************************************************)
(* C17.  In the per-item filter_papers a provider call that fails for one  *)
(* paper leaves only that paper out: the run goes on, every paper within   *)
(* the cap is still embedded, and each of the others is in the output iff  *)
(* its similarity is >= the threshold.                                     *)
(***************************************************************************)
C17_ProviderFailureIsLocal ==
    (IsEmbeddingFilter /\ ~batch.attempted) =>
        /\ pc # "raised"
        /\ pc = "returned" =>
              /\ CalledPositions =
                     FirstPositions(IF Len(papers) < max_papers THEN Len(papers) ELSE max_papers)
              /\ \A k \in 1..Len(calls) :
                    /\ calls[k].outcome.kind \in ProviderErrors => ~InList(calls[k].pos, result)
                    /\ Comparable(calls[k]) =>
                          (InList(calls[k].pos, result) <=>
                              ReachesThreshold(
                                  Similarity(query_embedding, calls[k].outcome.embedding),
                                  similarity_threshold))

C17_Witness ==
    /\ PerItemReturned
    /\ Len(calls) = 2
    /\ calls[1].outcome.kind = "Timeout"
    /\ calls[2].outcome.kind = "vector"
    /\ calls[2].outcome.embedding = <<1, 0>>
    /\ result = <<2>>

(***************************************************************************)
(* C18.  The query text is embedded once in a session, at construction;    *)
(* no step of filter_papers, of filter_papers_batch or of the fallback     *)
(* from the one to the other embeds it again or changes the stored vector, *)
(* and every paper is compared against that stored vector.                 *)
(***************************************************************************)
\* every paper kept so far was kept, and scored, by its similarity to the
\* stored query vector
ComparedWithStoredQuery ==
    /\ \A k \in 1..Len(calls) :
          Comparable(calls[k]) =>
              LET sim == Similarity(query_embedding, calls[k].outcome.embedding)
              IN  /\ InList(calls[k].pos, relevant_papers)
                         <=> ReachesThreshold(sim, similarity_threshold)
                  /\ InList(calls[k].pos, relevant_papers)
                         => ScoreIs(ScoreOf(calls[k].pos), sim)
    /\ BatchReturned =>
          \A pos \in 1..Len(batch.embeddings) :
              LET sim == Similarity(query_embedding, batch.embeddings[pos])
              IN  /\ InList(pos, result) <=> ReachesThreshold(sim, similarity_threshold)
                  /\ InList(pos, result) => ScoreIs(ScoreOf(pos), sim)

C18_QueryEmbeddedOnce ==
    [][ IsEmbeddingFilter =>
            /\ query_embeds = 1
            /\ query_embeds' = query_embeds
            /\ query_embedding' = query_embedding
            /\ ComparedWithStoredQuery' ]_vars

C18_Witness ==
    /\ BatchFailed
    /\ pc = "returned"
    /\ query_embedding = <<1, 1>>
    /\ Len(calls) = 2
    /\ calls[1].outcome.embedding = <<1, 0>>
    /\ calls[2].outcome.embedding = <<1, 1>>
    /\ result = <<2, 1>>

(***************************************************************************)
(* C19.  Both variants of an embedding filter cut the input to its first   *)
(* max_papers papers before any embedding request: the batch request       *)
(* carries at most max_papers texts, only papers within the cap are        *)
(* embedded one by one, and no paper beyond the cap is in the output.      *)
(***************************************************************************)
C19_EmbeddingRequestsWithinCap ==
    IsEmbeddingFilter =>
        /\ batch.sent <= max_papers
        /\ Len(calls) <= max_papers
        /\ \A k \in 1..Len(calls) : calls[k].pos <= max_papers
        /\ pc = "returned" => \A p \in 1..Len(result) : result[p] <= max_papers

(***************************************************************************)
(* C20.  The embedding filters only add fields to a paper: a               *)
(* similarity_score a paper had before the call is neither overwritten nor *)
(* removed, and a paper that is rejected or skipped is left as it was.     *)
(***************************************************************************)
C20_PaperFieldsOnlyAdded ==
    IsEmbeddingFilter =>
        /\ \A pos \in DOMAIN prior_score :
              /\ pos \in DOMAIN similarity_score
              /\ similarity_score[pos] = prior_score[pos]
        /\ pc = "returned" =>
              \A pos \in 1..Len(papers) :
                  ~InList(pos, result) =>
                      (pos \in DOMAIN similarity_score <=> pos \in DOMAIN prior_score)

\* every component of v is zero: the vector has norm zero
IsZeroVector(v) == \A k \in 1..Len(v) : v[k] = 0

(***************************************************************************)
(* C21.  cosine_similarity(a, b) returns 0.0 whenever a or b has norm      *)
(* zero and the two have one length: nothing is raised and no quotient by  *)
(* zero is formed, in the shared helper and in the Zhipu filter's copy.    *)
(***************************************************************************)
C21_ZeroNormGivesZero ==
    (filter_mode = "cosine" /\ pc = "checked") =>
        \A k \in 1..Len(calls) :
            (/\ Len(calls[k].a) = Len(calls[k].b)
             /\ (IsZeroVector(calls[k].a) \/ IsZeroVector(calls[k].b))) =>
                /\ calls[k].exc = "none"
                /\ calls[k].value.nn # 0
                /\ calls[k].value.dot = 0

\* the Zhipu copy was called with a zero vector and a non-zero one
C21_Witness ==
    /\ filter_mode = "cosine"
    /\ pc = "checked"
    /\ provider = "zhipu"
    /\ calls[1].a = <<0, 0>>
    /\ calls[1].b = <<1, -1>>
    /\ calls[1].value = [dot |-> 0, nn |-> 1]

\* the lines of a response that carry a decision marker, bold or plain,
\* the label in any letter case
BoldMarkerLines(text) ==
    LET lines == Split(text, <<"\n">>)
    IN  { k \in 1..Len(lines) : Contains(Lower(lines[k]), BoldMarker) }

PlainMarkerLines(text) ==
    LET lines == Split(text, <<"\n">>)
    IN  { k \in 1..Len(lines) : Contains(Lower(lines[k]), PlainMarker) }

\* what follows the Decision: label on a line, lower-cased
ValueAfterLabel(line) ==
    LET l == Lower(line)
    IN  Strip(SubSeq(l, Find(l, PlainMarker) + Len(PlainMarker), Len(l)))

StartsWithVerdict(value) ==
    \/ StartsWith(value, <<"y", "e", "s">>) \/ StartsWith(value, <<"u0060", "u0060", "y", "e", "s">>)
    \/ StartsWith(value, <<"n", "o">>) \/ StartsWith(value, <<"u0060", "u0060", "n", "o">>)

\* a marker is found, and no marker line carries yes or no
MarkerWithoutValue(text) ==
    LET lines == Split(text, <<"\n">>)
    IN  /\ BoldMarkerLines(text) \cup PlainMarkerLines(text) # {}
        /\ DecidingBoldLines(text) = {}
        /\ \A k \in PlainMarkerLines(text) : ~StartsWithVerdict(ValueAfterLabel(lines[k]))

\* how the rules after the two field rules classify the text
LooserRulesSayYes(text) == Cascade(3, Strip(text)).value = "YES"

(***************************************************************************)
(* C22.  A response whose **Decision** line or Decision: line (the label   *)
(* in any letter case) carries neither yes nor no is classified by the     *)
(* looser rules: the parse does not end at the field rule, nothing is      *)
(* raised, and the result is what first word, localized token, pattern     *)
(* cascade and keyword balance make of the text.                           *)
(***************************************************************************)
C22_EmptyFieldFallsThrough ==
    (Checked /\ MarkerWithoutValue(Strip(TheCall.outcome.stdout))) =>
        /\ TheCall.raised = "none"
        /\ TheCall.value = LooserRulesSayYes(TheCall.outcome.stdout)

\* the patterns of the cascade's lists by polarity
PatternsOfPolarity(value) ==
    { PatternList[k].pattern : k \in { j \in 1..Len(PatternList) : PatternList[j].value = value } }

ContainsPatternOf(text, value) ==
    \E pat \in PatternsOfPolarity(value) : Contains(Lower(text), pat)

\* no rule before the pattern cascade classified the response
ReachesPatternCascade(text) ==
    \A k \in 1..4 : Rule(k, Strip(text)) = "none"

(***************************************************************************)
(* C23.  A response that reaches the pattern cascade and contains a NO     *)
(* pattern of the list is classified NO, also when it contains a YES       *)
(* pattern of the list: the negative patterns are tried before the         *)
(* positive ones.                                                          *)
(***************************************************************************)
C23_NoPatternBeforeYesPattern ==
    (/\ Checked
     /\ ReachesPatternCascade(TheCall.outcome.stdout)
     /\ ContainsPatternOf(TheCall.outcome.stdout, "NO")) =>
        /\ TheCall.raised = "none"
        /\ TheCall.value = FALSE

\* the indicator words of the keyword balance
AffirmativeIndicators == { <<"y", "e", "s">>, <<"u76F8", "u5173">>, <<"r", "e", "l", "e", "v", "a", "n", "t">>, <<"p", "a", "s", "s">> }
NegativeIndicators == { <<"n", "o", "t", " ", "r", "e", "l", "e", "v", "a", "n", "t">>, <<"u4E0D", "u76F8", "u5173">>, <<"f", "a", "i", "l">>, <<"n", "o">> }

OccursAny(text, words) == \E w \in words : OccursIgnoringCase(text, w)

\* no rule before the keyword balance classified the response
ReachesKeywordBalance(text) ==
    \A k \in 1..5 : Rule(k, Strip(text)) = "none"

(***************************************************************************)
(* C24.  For a response that no earlier rule classified, the keyword       *)
(* balance gives YES when an affirmative indicator occurs and no negative  *)
(* one does, and NO otherwise: when only a negative indicator occurs, and  *)
(* when both kinds or neither occur (the response is unparseable).         *)
(***************************************************************************)
C24_KeywordBalance ==
    (Checked /\ ReachesKeywordBalance(TheCall.outcome.stdout)) =>
        /\ TheCall.raised = "none"
        /\ TheCall.value =
              (/\ OccursAny(TheCall.outcome.stdout, AffirmativeIndicators)
               /\ ~OccursAny(TheCall.outcome.stdout, NegativeIndicators))

\* a response with indicators of both kinds reached the keyword balance
C24_Witness ==
    /\ Checked
    /\ ReachesKeywordBalance(TheCall.outcome.stdout)
    /\ OccursAny(TheCall.outcome.stdout, AffirmativeIndicators)
    /\ OccursAny(TheCall.outcome.stdout, NegativeIndicators)
    /\ TheCall.value = FALSE

\* the task of paper pos ended in an exception or its last CLI call timed out
WorkerFailed(pos) ==
    LET f == summarizer.future[pos]
    IN  \/ f.exc # "none"
        \/ (f.calls # <<>> /\ f.calls[Len(f.calls)].kind = "timeout")

\* the abstract of paper pos cut to max_length characters
CutAbstract(pos) == FirstN(summarizer.papers[pos].abstract, summarizer.max_length)

\* the summary that the task of paper pos alone accounts for: the text of
\* its last CLI call when that call succeeded (limited in length), the cut
\* abstract otherwise
OwnSummary(pos) ==
    LET f == summarizer.future[pos]
        last == f.calls[Len(f.calls)]
    IN  IF f.exc = "none" /\ f.calls # <<>> /\ last.kind = "ok"
        THEN IF Len(last.stdout) > summarizer.max_length
             THEN FirstN(last.stdout, summarizer.max_length) \o <<".", ".", ".">>
             ELSE last.stdout
        ELSE CutAbstract(pos)

IdsOf(list) == { list[k].id : k \in 1..Len(list) }

\* the first paper of the list that carries the id
FirstWithId(list, id) == list[Min({ k \in 1..Len(list) : list[k].id = id })]

(***************************************************************************)
(* C26.  The list fetch_and_process hands to the filter holds no paper     *)
(* whose id is recorded as processed and no two papers of one id, whatever *)
(* the fetchers returned; of several fetched papers with one new id the    *)
(* first in fetch order is the one in the list.                            *)
(***************************************************************************)
C26_FilterInputIsNewAndUnique ==
    (run.pc = "filter") =>
        /\ \A k \in 1..Len(run.unique_papers) :
              run.unique_papers[k].id \notin DOMAIN storage.processed_papers
        /\ \A a, b \in 1..Len(run.unique_papers) :
              a # b => run.unique_papers[a].id # run.unique_papers[b].id
        /\ \A k \in 1..Len(run.unique_papers) :
              run.unique_papers[k] = FirstWithId(run.all_papers, run.unique_papers[k].id)
        /\ IdsOf(run.unique_papers) =
              IdsOf(run.all_papers) \ DOMAIN storage.processed_papers

\* two papers of one new id were fetched, the second version first, while
\* another paper is recorded as processed
C26_Witness ==
    /\ run.pc = "filter"
    /\ run.all_papers = << [id |-> "a", n |-> 2], [id |-> "a", n |-> 1] >>
    /\ run.unique_papers = << [id |-> "a", n |-> 2] >>
    /\ "b" \in DOMAIN storage.processed_papers

\* the papers load_briefing returns for the date, none when it returns None
StoredPapers(briefing_date) ==
    LET loaded == LoadBriefing(storage, briefing_date)
    IN  IF loaded.none THEN {} ELSE { loaded.papers[k] : k \in 1..Len(loaded.papers) }

(***************************************************************************)
(* C27.  Between runs, and as long as no cleanup has run, the stored       *)
(* briefing of a date holds every paper that a run for that date accepted, *)
(* summarized and saved: a later run for the date drops none of them.      *)
(***************************************************************************)
C27_BriefingKeepsEarlierPapers ==
    (run.pc = "idle" /\ ~history.cleaned) =>
        \A d \in Dates : history.saved[d] \subseteq StoredPapers(d)

(***************************************************************************)
(* C28.  Between runs, every paper recorded as processed is in a briefing  *)
(* that was saved: a run that fails after marking and before the save is   *)
(* complete leaves no paper marked.                                        *)
(***************************************************************************)
C28_ProcessedOnlyWhenSaved ==
    (run.pc = "idle") =>
        \A id \in DOMAIN storage.processed_papers :
            \E d \in Dates : \E paper \in history.saved[d] : paper.id = id

\* the dates older than retain_days on the day of the cleanup
Expired == { d \in Dates : d < Today - storage.retain_days }

(***************************************************************************)
(* C30.  Right after cleanup_old_data, load_briefing returns None for      *)
(* every date older than retain_days.                                      *)
(***************************************************************************)
C30_ExpiredBriefingsAreGone ==
    (history.pc = "ready" /\ history.last = "cleanup") =>
        \A d \in Expired : LoadBriefing(storage, d).none

\* C29: download_paper returns a local path only for a file whose download
\* completed; in particular a call that follows a download of the same path
\* that broke off while the body was streamed does not return the part
\* that was written.
C29_ReturnsOnlyCompletedFiles ==
    (pdf_downloader.pc = "ready" /\ ~pdf_downloader.returned.none) =>
        /\ PathExists(pdf_downloader.files, pdf_downloader.returned.path)
        /\ pdf_downloader.files[pdf_downloader.returned.path].complete
====
